---- MODULE Spec2Model ----
(***************************************************************************)
(* Density-anchor trading subsystem of hyper_screener: BounceTradingModule *)
(* (entry path, per-snapshot position state machine, PnL supervisor) on    *)
(* top of the ExecutionEngine contract as implemented by                   *)
(* BinanceExecutionEngine in live mode.                                    *)
(*                                                                         *)
(* Scheduling.  The program runs on one JavaScript event loop.  A handler  *)
(* runs without interruption until it awaits an engine call that performs *)
(* network I/O; other handlers run while it is suspended.  The variable    *)
(* running names the handler that owns the loop between two awaits         *)
(* (Idle when none does); handlers start or resume only when it is Idle.   *)
(* The paper engine never performs I/O, so its behaviours are those in     *)
(* which every engine call answers before anything else happens.           *)
(*                                                                         *)
(* Numbers.  Prices and USD amounts are integers; the inputs are chosen so *)
(* that every division of the source is exact.                             *)
(***************************************************************************)
EXTENDS Integers, Sequences, FiniteSets, TLC

\* ------------------------------------------------------------------ bounds
MaxLargeOrders == 2     \* LargeOrder events delivered to onLargeOrder
MaxSnapshots == 2       \* snapshots delivered to onOrderBookSnapshot
MaxTicks == 1           \* PnL supervisor timer ticks
MaxEvents == 4          \* LargeOrders, snapshots and ticks delivered in all
MaxRiskEvents == 5      \* the same, in the runs of the PnL supervisor
MaxFaults == 1          \* engine requests that fail or are rejected
MaxPositions == 2       \* position objects ever created
MaxRules == 3           \* rules a policy ever holds
MaxCandles == 4         \* candles fed to one NatrCalculator
MaxOpenTime == 3        \* 5m candles the exchange opens
MaxSockets == 12        \* WebSockets the stream client ever creates
MaxMessages == 1        \* messages dispatched from one socket
MaxCalls == 4           \* calls of the ExecutionEngine
MaxEnginePositions == 2 \* positions the ExecutionEngine opens
MaxEngineOrders == 2    \* limit orders the ExecutionEngine places
MaxNow == 3             \* Date.now() at the end of a run
MaxTrades == 3          \* trades recorded for one anchor
MaxBooks == 2           \* snapshots the screener processes
MaxPending == 2         \* sendMessage requests of alerts awaiting their answer
MaxCooldownMs == 7200000 \* the longest ALERT_COOLDOWN_MS configured
MaxElapses == 5         \* advances of the clock while the notifier runs

\* ----------------------------------------------------------- configuration
tradeEnabled == TRUE
tradeMaxOpenPositions == 1
tradePositionSizeUsd == 100
tradeMaxRiskPerTrade == 20
tradeRiskNatrMultiplier == 1
tradeAnchorMinValueFractionPct == 30    \* tradeAnchorMinValueFraction 0.3, in percent
tradeAnchorMinValueUsd == 300
tradeEntryMarketPercent == 50
tradeEntryLimitPercent == 50
tradeEntryLimitDensityMinPercent == 50
minOrderSizeUsd == 1000
maxDistancePercent == 10
tradeNatrPeriod == 14
tradeEntryLimitNatrRange == <<0, 2>>
tradeTpNatrLevels == <<1, 2>>
tradeTpPercents == <<50, 50>>
EntryModes == {"MARKET", "LIMIT", "MIXED"}

\* ------------------------------------------------------------------ inputs
Coins == {"BTC", "btc", "ETH", "SOL"}
\* variant: coin keys compared as written
toUpperCaseAsWritten(c) == c
toUpperCase(c) == IF c = "btc" THEN "BTC" ELSE c
CoinKeys == {toUpperCase(c) : c \in Coins}
LargeOrders ==
  {[coin |-> c, side |-> IF c = "ETH" THEN "ask" ELSE "bid", price |-> 100,
    valueUsd |-> 1000] : c \in Coins}
\* fill price of a market entry: the reference price, or 20 worse
FillPrices(side, referencePrice) ==
  {referencePrice, IF side = "long" THEN referencePrice + 20 ELSE referencePrice - 20}


Max(a, b) == IF a >= b THEN a ELSE b
SumSeq(s) == LET RECURSIVE Sum(_)
                 Sum(n) == IF n = 0 THEN 0 ELSE s[n] + Sum(n - 1)
             IN Sum(Len(s))
RemoveKey(f, k) == [x \in DOMAIN f \ {k} |-> f[x]]
SeqToSet(s) == {s[i] : i \in 1..Len(s)}

VARIABLES
  openPositions,   \* the ledger: sequence of position ids
  positions,       \* heap of PositionState objects, index = id
  orders,          \* heap of LimitOrderState objects, index = id
  pendingCoins,    \* coin keys with an entry in flight
  lastPrices,      \* coin -> last mid price seen (0 = none)
  natr,            \* coin key -> NATR of NatrService (0 = not available)
  cfg,             \* entry mode, TP mode, policy switch and book feed of this run
  anchors,         \* AnchorMemory: anchor key -> stats loaded from disk
  entries,         \* in-flight onLargeOrder calls
  snaps,           \* in-flight onOrderBookSnapshot calls
  sups,            \* in-flight checkPnlAndEmergencyClose calls
  count,           \* events delivered so far
  skipLog,         \* history: why LargeOrders and snapshots were skipped
  closeLog,        \* history: closePosition calls
  tradeLog,        \* history: trade-log entries
  rules,           \* PositionPolicy.rules
  period,          \* NatrService.period
  calculators,     \* NatrService.calculators: coin key -> NatrCalculator
  returned,        \* history: the last call of a service and what it returned
  client,          \* HyperliquidClient: its fields, its sockets and its timers
  now,             \* Date.now()
  engine,          \* the ExecutionEngine, the exchange behind it and the orders it handed out
  telegram,        \* TelegramNotifier: lastAlerts, globalRateLimitUntil and the alerts sent
  pnlCheckInterval, \* the timer of the supervisor: "set" or "cleared"
  candleFeed       \* BinanceCandleFeed: trackedCoins, and the candle times it has seen

\* The state of the trading module, and the state of the services it consults.
tradingVars == <<openPositions, positions, orders, pendingCoins, lastPrices, natr, cfg,
                 anchors, entries, snaps, sups, count, skipLog, closeLog, tradeLog,
                 pnlCheckInterval, candleFeed>>
policyVars == <<rules>>
natrVars == <<period, calculators>>
clientVars == <<client>>
engineVars == <<engine>>
notifierVars == <<telegram>>
peripheralVars == <<client, now, engine, telegram>>
serviceVars == <<rules, period, calculators, returned, client, now, engine, telegram,
                 pnlCheckInterval, candleFeed>>

vars == <<openPositions, positions, orders, pendingCoins, lastPrices, natr, cfg, anchors,
          entries, snaps, sups, count, skipLog, closeLog, tradeLog,
          rules, period, calculators, returned, client, now, engine, telegram,
          pnlCheckInterval, candleFeed>>

\* new BinanceCandleFeed(natrService).  openTime is the open time of the 5m candle
\* the exchange serves now, counted in candles; seen is a history field: the candle
\* timestamps handed to NatrService.update, by coin key.
NewCandleFeed == [trackedCoins |-> {}, openTime |-> 1, seen |-> <<>>]

\* Events delivered so far.
Delivered == count.largeOrders + count.snapshots + count.ticks
\* The events one run delivers.
EventBudget == IF cfg.feed = "risk" THEN MaxRiskEvents ELSE MaxEvents

\* An engine request is answered; unsuccessful answers are counted.
EngineAnswer(success) ==
  /\ success \/ count.faults < MaxFaults
  /\ count' = IF success THEN count ELSE [count EXCEPT !.faults = count.faults + 1]

\* ------------------------------------------------------- NatrService.getNatr
getNatr(coin) == natr[toUpperCase(coin)]

\* ------------------------------------------- BasicRiskManager.canOpenPosition
canOpenPosition(coin) ==
  /\ ~(Len(openPositions) >= tradeMaxOpenPositions)
  /\ ~(\E i \in 1..Len(openPositions) : positions[openPositions[i]].coin = coin)

\* ------------------------------------- BounceTradingModule.calculatePositionSize
calculatePositionSize(coin) ==
  IF tradeMaxRiskPerTrade <= 0 THEN tradePositionSizeUsd
  ELSE IF getNatr(coin) <= 0 THEN tradePositionSizeUsd
  ELSE (tradeMaxRiskPerTrade * 100) \div (getNatr(coin) * tradeRiskNatrMultiplier)

\* ------------------------------------------------------------- AnchorMemory
getAnchorKey(anchorId) == <<anchorId.coin, anchorId.anchorPrice, anchorId.side>>
getStats(anchorId) ==
  IF getAnchorKey(anchorId) \in DOMAIN anchors THEN anchors[getAnchorKey(anchorId)]
  ELSE [totalTrades |-> 0, winTrades |-> 0, lastTradeAgoMin |-> 1000000]

\* ----------------------------------------------------------- PositionPolicy
\* The rules loaded from the policy file: when maps condition names to bounds,
\* then maps action names to values; a name that is absent is undefined.
policyRules ==
  << [name |-> "too_many_wins_on_anchor", priority |-> 1,
      when |-> ("anchorWinCountGte" :> 5),
      then |-> ("allowTrade" :> FALSE)],
     [name |-> "first_trade_on_anchor", priority |-> 9,
      when |-> ("anchorTradeCountLte" :> 0),
      then |-> ("sizeMultiplier" :> 1)] >>

\* rules.sort((a, b) => a.priority - b.priority): a stable sort, so rules of
\* equal priority keep the order they had.
InsertByPriority(sorted, rule) ==
  LET k == Cardinality({n \in 1..Len(sorted) : sorted[n].priority <= rule.priority})
  IN SubSeq(sorted, 1, k) \o <<rule>> \o SubSeq(sorted, k + 1, Len(sorted))

RECURSIVE sortByPriority(_)
sortByPriority(rs) ==
  IF rs = <<>> THEN <<>>
  ELSE InsertByPriority(sortByPriority(SubSeq(rs, 1, Len(rs) - 1)), rs[Len(rs)])

\* PolicyRulesParser.loadFromFile: the rules of the file sorted, or none when
\* there is no such file or it does not parse.
loadFromFile(file) == IF ~file.valid THEN <<>> ELSE sortByPriority(file.rules)

\* variant: addRule appends without sorting
addRuleUnsorted(rs, rule) == Append(rs, rule)

\* PositionPolicy.addRule: push, then sort.
addRule(rs, rule) == sortByPriority(Append(rs, rule))

ConditionHolds(name, bound, features) ==
  CASE name = "shock30mNatrGte" -> features.shock30mNatr >= bound
    [] name = "shock30mNatrLte" -> features.shock30mNatr <= bound
    [] name = "shock60mNatrGte" -> features.shock60mNatr >= bound
    [] name = "shock60mNatrLte" -> features.shock60mNatr <= bound
    [] name = "anchorTradeCountGte" -> features.anchorTradeCount >= bound
    [] name = "anchorTradeCountLte" -> features.anchorTradeCount <= bound
    [] name = "anchorWinCountGte" -> features.anchorWinCount >= bound
    [] name = "anchorWinCountLte" -> features.anchorWinCount <= bound
    [] name = "anchorLastTradeAgoMinGte" -> features.anchorLastTradeAgoMin >= bound
    [] name = "anchorLastTradeAgoMinLte" -> features.anchorLastTradeAgoMin <= bound
    [] name = "timeInAnchorZoneMinGte" -> features.timeInAnchorZoneMin >= bound
    [] name = "timeInAnchorZoneMinLte" -> features.timeInAnchorZoneMin <= bound
    [] name = "tpHitsCountEq" -> features.tpHitsCount = bound

checkConditions(rule, features) ==
  \A name \in DOMAIN rule.when : ConditionHolds(name, rule.when[name], features)

\* The loop of evaluatePolicy from rule n on: it stops at the first matching
\* rule that leaves allowTrade false.
\* rule.then.<key> !== undefined ? value * rule.then.<key> : value
Multiplied(value, rule, key) ==
  IF key \in DOMAIN rule.then THEN value * rule.then[key] ELSE value

\* The base decision of evaluatePolicy.  reason is the list of names that the
\* source joins with ", "; appliedRules is the local of that name; visited is a
\* history field: the rules whose conditions were checked, in order.
defaultDecision ==
  [allowTrade |-> TRUE, sizeMultiplier |-> 1, tpNatrMultiplier |-> 1,
   slNatrMultiplier |-> 1, reason |-> <<"default">>, appliedRules |-> <<>>,
   visited |-> <<>>]

\* if (appliedRules.length > 0) decision.reason = appliedRules.join(', ')
joinAppliedRules(decision) ==
  IF Len(decision.appliedRules) > 0
  THEN [decision EXCEPT !.reason = decision.appliedRules]
  ELSE decision

RECURSIVE ApplyRules(_, _, _)
ApplyRules(n, features, decision) ==
  IF n > Len(rules) THEN decision
  ELSE LET rule == rules[n]
           seen == [decision EXCEPT !.visited = Append(decision.visited, rule)]
           applied ==
             [seen EXCEPT
                !.allowTrade = IF "allowTrade" \in DOMAIN rule.then
                               THEN rule.then["allowTrade"] ELSE decision.allowTrade,
                !.sizeMultiplier = Multiplied(decision.sizeMultiplier, rule,
                                              "sizeMultiplier"),
                !.tpNatrMultiplier = Multiplied(decision.tpNatrMultiplier, rule,
                                                "tpNatrMultiplier"),
                !.slNatrMultiplier = Multiplied(decision.slNatrMultiplier, rule,
                                                "slNatrMultiplier"),
                !.appliedRules = Append(decision.appliedRules, rule.name)]
       IN IF ~checkConditions(rule, features) THEN ApplyRules(n + 1, features, seen)
          ELSE IF ~applied.allowTrade THEN [applied EXCEPT !.reason = <<rule.name>>]
          ELSE ApplyRules(n + 1, features, applied)

evaluatePolicy(features) == joinAppliedRules(ApplyRules(1, features, defaultDecision))

\* ------------------------- BounceTradingModule.calculatePositionSizeWithPolicy
\* The NATR history of ContextFeaturesService is written only by this function.
calculatePositionSizeWithPolicy(coin, anchorId) ==
  LET baseSize == calculatePositionSize(coin)
      features == [shock30mNatr |-> 0, shock60mNatr |-> 0,
                   timeInAnchorZoneMin |-> 0, timeSinceEntryMin |-> 0,
                   anchorTradeCount |-> getStats(anchorId).totalTrades,
                   anchorWinCount |-> getStats(anchorId).winTrades,
                   anchorLastTradeAgoMin |-> getStats(anchorId).lastTradeAgoMin,
                   tpHitsCount |-> 0]
      decision == evaluatePolicy(features)
  IN IF ~cfg.policyEnabled
     THEN [sizeUsd |-> baseSize,
           decision |-> defaultDecision]
     ELSE [sizeUsd |-> baseSize * decision.sizeMultiplier, decision |-> decision]

\* anchorMinValueUsd of executeEntry
AnchorMinValue(valueUsd) ==
  Max((valueUsd * tradeAnchorMinValueFractionPct) \div 100, tradeAnchorMinValueUsd)

tradeTpLimitProportions == IF cfg.tpLimit THEN <<1>> ELSE <<>>

\* TRADE_ENTRY_LIMIT_PROPORTIONS: one entry-limit order, or cfg.entryLimitOrders
\* orders of equal weight.
tradeEntryLimitProportions == [i \in 1..cfg.entryLimitOrders |-> 1]

\* --------------------------------------------------------------- objects
\* PositionState as PaperExecutionEngine/BinanceExecutionEngine.openPosition and
\* executeLimitEntry create it.  state and registeredSizeUsd are history fields:
\* "new" until pushed to the ledger, "open" while in it, "closed" once removed.
NewPosition(coin, side, entryPrice, sizeUsd) ==
  [coin |-> coin, side |-> side, entryPrice |-> entryPrice, sizeUsd |-> sizeUsd,
   anchorSide |-> "none", anchorPrice |-> 0,
   anchorInitialValueUsd |-> 0, anchorMinValueUsd |-> 0,
   tpTargets |-> <<>>, entryLimitOrders |-> <<>>, tpLimitOrders |-> <<>>,
   marketFilledSizeUsd |-> 0, limitFilledSizeUsd |-> 0,
   state |-> "new", registeredSizeUsd |-> 0]

\* LimitOrderState as placeLimitOrder returns it.  pos (owner) and cancelRequested
\* (engine.cancelLimitOrder was called on it) are history fields.
NewOrder(pos, coin, side, price, sizeUsd, purpose) ==
  [coin |-> coin, price |-> price, sizeUsd |-> sizeUsd, side |-> side,
   purpose |-> purpose, filled |-> FALSE, cancelled |-> FALSE,
   pos |-> pos, cancelRequested |-> FALSE]

IsActive(o) == ~o.filled /\ ~o.cancelled

\* ----------------------------------- BounceTradingModule.calculateLimitPrices
calculateLimitPrices(natrRange, side, anchorPrice, natrV, cnt) ==
  IF cnt <= 0 \/ anchorPrice <= 0 \/ natrV <= 0 THEN <<>>
  ELSE LET natrStep == (anchorPrice * natrV) \div 100
           minNatr == natrRange[1]
           maxNatr == natrRange[2]
           step == IF cnt = 1 THEN 0 ELSE (maxNatr - minNatr) \div (cnt - 1)
           natrOffset(i) == IF cnt = 1 THEN (minNatr + maxNatr) \div 2
                            ELSE minNatr + step * (i - 1)
           price(i) == IF side = "long" THEN anchorPrice + natrStep * natrOffset(i)
                       ELSE anchorPrice - natrStep * natrOffset(i)
           prices == [i \in 1..cnt |-> price(i)]
       IN SelectSeq(prices, LAMBDA x : x > 0)

\* The orders placeLimitEntryOrders asks the engine for, in order: <<>> on each of
\* its early returns.
placeLimitEntryOrdersPlan(side, anchorPrice, totalLimitSizeUsd, natrV) ==
  LET proportions == tradeEntryLimitProportions
      totalProportion == SumSeq(proportions)
      cnt == Len(proportions)
      prices == calculateLimitPrices(tradeEntryLimitNatrRange, side, anchorPrice, natrV, cnt)
  IN IF totalLimitSizeUsd <= 0 \/ cnt = 0 THEN <<>>
     ELSE IF totalProportion <= 0 THEN <<>>
     ELSE IF Len(prices) # cnt THEN <<>>
     ELSE [i \in 1..cnt |->
             [price |-> prices[i],
              sizeUsd |-> (totalLimitSizeUsd * proportions[i]) \div totalProportion,
              side |-> IF side = "long" THEN "buy" ELSE "sell"]]

\* Number of engine.placeLimitOrder calls of one placeLimitTpOrders call.
placeLimitTpOrdersCount ==
  IF \/ Len(tradeTpNatrLevels) = 0
     \/ Len(tradeTpNatrLevels) # Len(tradeTpPercents)
     \/ Len(tradeTpLimitProportions) = 0
  THEN 0
  ELSE IF SumSeq(tradeTpLimitProportions) <= 0 THEN 0
  ELSE Len(tradeTpNatrLevels) * Len(tradeTpLimitProportions)

\* The n-th order placeLimitTpOrders asks for; the level size is read from the
\* position when the level is reached.
placeLimitTpOrdersSpec(position, natrV, n) ==
  LET cnt == Len(tradeTpLimitProportions)
      levelIdx == ((n - 1) \div cnt) + 1
      i == ((n - 1) % cnt) + 1
      natrStep == (position.entryPrice * natrV) \div 100
      levelSizeUsd == (position.sizeUsd * tradeTpPercents[levelIdx]) \div 100
      delta == natrStep * tradeTpNatrLevels[levelIdx]
  IN [price |-> IF position.side = "long" THEN position.entryPrice + delta
                ELSE position.entryPrice - delta,
      sizeUsd |-> (levelSizeUsd * tradeTpLimitProportions[i])
                    \div SumSeq(tradeTpLimitProportions),
      side |-> IF position.side = "long" THEN "sell" ELSE "buy"]

\* ---------------------------------------- BounceTradingModule.setupTpTargets
setupTpTargets(position, natrV) ==
  IF Len(tradeTpNatrLevels) = 0 \/ Len(tradeTpNatrLevels) # Len(tradeTpPercents)
  THEN position.tpTargets
  ELSE LET step == (position.entryPrice * natrV) \div 100
       IN [idx \in 1..Len(tradeTpNatrLevels) |->
             [price |-> IF position.side = "long"
                        THEN position.entryPrice + step * tradeTpNatrLevels[idx]
                        ELSE position.entryPrice - step * tradeTpNatrLevels[idx],
              sizeUsd |-> (position.sizeUsd * tradeTpPercents[idx]) \div 100,
              hit |-> FALSE]]

\* BinanceExecutionEngine.placeLimitOrder answers null before any request when the
\* price is invalid or the quantity normalizes to zero.
placeLimitOrderRejectsAtOnce(price, sizeUsd) == price <= 0 \/ sizeUsd <= 0

\* =================================================================== handlers
\* What a handler sees and changes while it owns the event loop: the module's
\* state, its own frame f, and st: "run" while it executes, "wait" once it awaits
\* an engine request, "end" once it returned.
World(f) ==
  [openPositions |-> openPositions, positions |-> positions, orders |-> orders,
   pendingCoins |-> pendingCoins, closeLog |-> closeLog, tradeLog |-> tradeLog,
   f |-> f, st |-> "run"]

\* The state the handler leaves when it stops at an await or returns.
Commit(w) ==
  /\ openPositions' = w.openPositions
  /\ positions' = w.positions
  /\ orders' = w.orders
  /\ pendingCoins' = w.pendingCoins
  /\ closeLog' = w.closeLog
  /\ tradeLog' = w.tradeLog

\* =================================================================== entry
\* An in-flight onLargeOrder call: the LargeOrder, signal.targetPositionSizeUsd,
\* the NATR read by executeEntry, the position being built (0: none yet), and
\* the loop state of placeLimitEntryOrders / placeLimitTpOrders.
MarketSizeUsd(size) ==
  (size * tradeEntryMarketPercent) \div (tradeEntryMarketPercent + tradeEntryLimitPercent)
LimitSizeUsd(size) ==
  (size * tradeEntryLimitPercent) \div (tradeEntryMarketPercent + tradeEntryLimitPercent)

\* variant: onLargeOrder without the pendingCoins check
onLargeOrderGateNoPending(order) ==
  LET coinKey == toUpperCase(order.coin)
  IN IF \E i \in 1..Len(openPositions) :
          toUpperCase(positions[openPositions[i]].coin) = coinKey THEN "open"
     ELSE IF ~canOpenPosition(order.coin) THEN "risk"
     ELSE ""

\* onLargeOrder's gates before pendingCoins.add: "" when the order passes.
onLargeOrderGate(order) ==
  LET coinKey == toUpperCase(order.coin)
  IN IF coinKey \in pendingCoins THEN "pending"
     ELSE IF \E i \in 1..Len(openPositions) :
               toUpperCase(positions[openPositions[i]].coin) = coinKey THEN "open"
     ELSE IF ~canOpenPosition(order.coin) THEN "risk"
     ELSE ""

\* executeEntry's early returns after pendingCoins.add: "" when an entry starts.
executeEntryGate(order) ==
  IF getNatr(order.coin) <= 0 THEN "natr"
  ELSE IF cfg.entryMode = "MIXED" /\ tradeEntryMarketPercent + tradeEntryLimitPercent <= 0
       THEN "mixed_total"
  ELSE ""

\* variant: the entry ends without releasing the coin
FinishEntryKeepsPending(w, position) ==
  [w EXCEPT !.positions[w.f.pos] = [position EXCEPT !.state = "open",
                                      !.registeredSizeUsd = position.sizeUsd],
            !.openPositions = Append(w.openPositions, w.f.pos),
            !.st = "end"]

\* The end of executeMarketEntry / executeLimitEntry / executeMixedEntry and of
\* onLargeOrder: push the position, then the finally block releases the coin.
FinishEntry(w, position) ==
  [w EXCEPT !.positions[w.f.pos] = [position EXCEPT !.state = "open",
                                      !.registeredSizeUsd = position.sizeUsd],
            !.openPositions = Append(w.openPositions, w.f.pos),
            !.pendingCoins = w.pendingCoins \ {toUpperCase(w.f.order.coin)},
            !.st = "end"]

\* One step of the entry between two awaits: the loop head of
\* placeLimitEntryOrders, the TP branch of executeMarketEntry/executeMixedEntry,
\* or the loop head of placeLimitTpOrders.
EntryStep(w) ==
  LET f == w.f
      position == w.positions[f.pos]
      plan == placeLimitEntryOrdersPlan(position.side, f.order.price,
                 IF cfg.entryMode = "MIXED" THEN LimitSizeUsd(f.size) ELSE f.size, f.natr)
      spec == placeLimitTpOrdersSpec(position, f.natr, f.i)
  IN
  CASE f.pc = "entryPlace" ->
         IF f.i > Len(plan)
         THEN LET done == [position EXCEPT !.entryLimitOrders = f.placed]
              IN IF cfg.entryMode = "LIMIT" THEN FinishEntry(w, done)
                 ELSE [w EXCEPT !.positions[f.pos] = done,
                                !.f = [f EXCEPT !.pc = "tpStage", !.i = 1, !.placed = <<>>]]
         ELSE IF placeLimitOrderRejectsAtOnce(plan[f.i].price, plan[f.i].sizeUsd)
              THEN [w EXCEPT !.f.i = f.i + 1]
              ELSE [w EXCEPT !.f.pc = "entryPlaceWait", !.st = "wait"]
    [] f.pc = "tpStage" ->
         IF Len(tradeTpLimitProportions) > 0
         THEN IF placeLimitTpOrdersCount = 0 THEN FinishEntry(w, position)
              ELSE [w EXCEPT !.f = [f EXCEPT !.pc = "tpPlace", !.i = 1, !.placed = <<>>]]
         ELSE FinishEntry(w, [position EXCEPT !.tpTargets = setupTpTargets(position, f.natr)])
    [] f.pc = "tpPlace" ->
         IF f.i > placeLimitTpOrdersCount
         THEN FinishEntry(w, [position EXCEPT !.tpLimitOrders = f.placed])
         ELSE IF placeLimitOrderRejectsAtOnce(spec.price, spec.sizeUsd)
              THEN [w EXCEPT !.f.i = f.i + 1]
              ELSE [w EXCEPT !.f.pc = "tpPlaceWait", !.st = "wait"]

\* The entry runs until its next await or its return.
RECURSIVE EntryRun(_)
EntryRun(w) == IF w.st # "run" THEN w ELSE EntryRun(EntryStep(w))

CommitEntry(h, w) ==
  /\ Commit(w)
  /\ entries' = IF w.st = "end" THEN RemoveKey(entries, h) ELSE (h :> w.f) @@ entries

\* A LargeOrder is delivered: onLargeOrder up to its first await.
OnLargeOrder(order) ==
  LET h == count.largeOrders + 1
      size == calculatePositionSize(order.coin)
      side == IF order.side = "bid" THEN "long" ELSE "short"
      frame == [order |-> order, size |-> size, natr |-> getNatr(order.coin),
                pc |-> "openWait", pos |-> 0, i |-> 1, placed |-> <<>>]
      pending == [World(frame) EXCEPT
                    !.pendingCoins = pendingCoins \cup {toUpperCase(order.coin)}]
      limitEntry == [pending EXCEPT
                       !.positions = Append(positions,
                          [NewPosition(order.coin, side, order.price, size) EXCEPT
                             !.anchorSide = order.side,
                             !.anchorPrice = order.price,
                             !.anchorInitialValueUsd = order.valueUsd,
                             !.anchorMinValueUsd = AnchorMinValue(order.valueUsd)]),
                       !.f = [frame EXCEPT !.pc = "entryPlace",
                                           !.pos = Len(positions) + 1]]
  IN
  /\ tradeEnabled
  /\ count.largeOrders < MaxLargeOrders
  /\ Delivered < EventBudget
  /\ count' = [count EXCEPT !.largeOrders = h]
  /\ IF onLargeOrderGate(order) # "" \/ executeEntryGate(order) # ""
     THEN /\ skipLog' = skipLog \cup {IF onLargeOrderGate(order) # ""
                                      THEN onLargeOrderGate(order)
                                      ELSE executeEntryGate(order)}
          /\ UNCHANGED <<openPositions, positions, orders, pendingCoins, lastPrices,
                         natr, cfg, anchors, serviceVars, entries, snaps, sups, closeLog, tradeLog>>
     ELSE /\ Len(positions) + Cardinality({e \in DOMAIN entries : entries[e].pos = 0})
               < MaxPositions
          /\ CommitEntry(h, IF cfg.entryMode = "LIMIT" THEN EntryRun(limitEntry)
                            ELSE [pending EXCEPT !.st = "wait"])
          /\ UNCHANGED <<lastPrices, natr, cfg, anchors, serviceVars, snaps, sups, skipLog>>

\* engine.openPosition answers: null (rejected, or the request failed), or a
\* position filled at fillPrice.
OpenPositionReturn(h, fillPrice) ==
  LET f == entries[h]
      side == IF f.order.side = "bid" THEN "long" ELSE "short"
      asked == IF cfg.entryMode = "MIXED" THEN MarketSizeUsd(f.size) ELSE f.size
      actualSizeUsd == (asked * fillPrice) \div f.order.price
      opened == NewPosition(f.order.coin, side, fillPrice, actualSizeUsd)
      position == [opened EXCEPT
                     !.anchorSide = f.order.side,
                     !.anchorPrice = f.order.price,
                     !.anchorInitialValueUsd = f.order.valueUsd,
                     !.anchorMinValueUsd = AnchorMinValue(f.order.valueUsd),
                     !.marketFilledSizeUsd = opened.sizeUsd,
                     !.limitFilledSizeUsd = 0,
                     !.sizeUsd = IF cfg.entryMode = "MIXED" THEN f.size ELSE opened.sizeUsd]
      next == IF cfg.entryMode = "MIXED" /\ LimitSizeUsd(f.size) > 0
              THEN "entryPlace" ELSE "tpStage"
  IN
  /\ h \in DOMAIN entries
  /\ f.pc = "openWait"
  /\ fillPrice = 0 \/ fillPrice \in FillPrices(side, f.order.price)
  /\ CommitEntry(h,
       IF fillPrice = 0
       THEN [World(f) EXCEPT !.pendingCoins = pendingCoins \ {toUpperCase(f.order.coin)},
                             !.st = "end"]
       ELSE EntryRun([World([f EXCEPT !.pos = Len(positions) + 1, !.pc = next]) EXCEPT
                        !.positions = Append(positions, position)]))
  /\ EngineAnswer(fillPrice # 0)
  /\ UNCHANGED <<lastPrices, natr, cfg, anchors, serviceVars, snaps, sups, skipLog>>

\* engine.placeLimitOrder answers an entry's request: the order, or null.
EntryPlaceReturn(h, ok) ==
  LET f == entries[h]
      position == positions[f.pos]
      plan == placeLimitEntryOrdersPlan(position.side, f.order.price,
                 IF cfg.entryMode = "MIXED" THEN LimitSizeUsd(f.size) ELSE f.size, f.natr)
      spec == IF f.pc = "entryPlaceWait" THEN plan[f.i]
              ELSE placeLimitTpOrdersSpec(position, f.natr, f.i)
      purpose == IF f.pc = "entryPlaceWait" THEN "entry" ELSE "tp"
      resumed == [f EXCEPT !.pc = IF f.pc = "entryPlaceWait" THEN "entryPlace" ELSE "tpPlace",
                           !.i = f.i + 1,
                           !.placed = IF ok THEN Append(f.placed, Len(orders) + 1)
                                      ELSE f.placed]
  IN
  /\ h \in DOMAIN entries
  /\ f.pc \in {"entryPlaceWait", "tpPlaceWait"}
  /\ CommitEntry(h, EntryRun([World(resumed) EXCEPT
         !.orders = IF ok THEN Append(orders, NewOrder(f.pos, position.coin, spec.side,
                                                       spec.price, spec.sizeUsd, purpose))
                    ELSE orders]))
  /\ EngineAnswer(ok)
  /\ UNCHANGED <<lastPrices, natr, cfg, anchors, serviceVars, snaps, sups, skipLog>>

\* ================================================================ snapshots
\* Order books delivered by the stream: bids descending, asks ascending.
Lvl(price, size) == [price |-> price, size |-> size]
CoreBooks ==
  { [bids |-> <<Lvl(100, 10), Lvl(90, 1)>>, asks |-> <<Lvl(110, 1)>>],
    [bids |-> <<Lvl(100, 10), Lvl(90, 1)>>, asks |-> <<Lvl(120, 1)>>],
    [bids |-> <<Lvl(100, 3), Lvl(90, 1)>>,  asks |-> <<Lvl(110, 1)>>],
    [bids |-> <<Lvl(110, 1), Lvl(90, 1)>>,  asks |-> <<Lvl(120, 1)>>],
    [bids |-> <<Lvl(90, 1)>>,               asks |-> <<Lvl(100, 10), Lvl(110, 1)>>],
    [bids |-> <<Lvl(100, 10)>>,             asks |-> <<Lvl(140, 1)>>] }
\* More books: the window above the anchor price 100, an anchor level worth
\* 400, between anchorMinValueUsd and the density threshold, and an empty side.
Books ==
  CoreBooks \cup
  { [bids |-> <<Lvl(120, 1), Lvl(110, 1)>>, asks |-> <<Lvl(130, 1)>>],
    [bids |-> <<Lvl(100, 4), Lvl(90, 1)>>,  asks |-> <<Lvl(110, 1)>>],
    [bids |-> <<Lvl(90, 1)>>,               asks |-> <<>>] }
\* Books in which the price has run up from the anchor price 100: the mid
\* price 125 is above both take-profit prices of a long entered at 100 (110 and
\* 120), 111 only above the first, while the anchor level is still shown, worth
\* 1000 or 300 (anchorMinValueUsd); and the book at entry, and one with the
\* anchor level worth 400.
ExitBooks ==
  { [bids |-> <<Lvl(100, 10), Lvl(90, 1)>>,  asks |-> <<Lvl(110, 1)>>],
    [bids |-> <<Lvl(100, 4), Lvl(90, 1)>>,   asks |-> <<Lvl(110, 1)>>],
    [bids |-> <<Lvl(110, 1), Lvl(100, 10)>>, asks |-> <<Lvl(112, 1)>>],
    [bids |-> <<Lvl(120, 1), Lvl(100, 10)>>, asks |-> <<Lvl(130, 1)>>],
    [bids |-> <<Lvl(120, 1), Lvl(100, 3)>>,  asks |-> <<Lvl(130, 1)>>] }
\* The books the stream delivers in this run.
Feed == IF cfg.feed = "wide" THEN Books
        ELSE IF cfg.feed = "exits" THEN ExitBooks
        ELSE CoreBooks
Snapshots == [coin : Coins, book : Books \cup ExitBooks]

\* ------------------------------------------ OrderBookMonitor.processOrderBook
\* variant: the monitor passes every snapshot on
processOrderBookForwardsAll(book) == TRUE

\* processOrderBook returns before anything else when a side is empty (the
\* best levels of the books above always parse, and the mark price is positive).
processOrderBookForwards(book) == Len(book.bids) > 0 /\ Len(book.asks) > 0

\* config.perCoinMinOrderSizeUsd with no entry: 0 stands for undefined
\* (parsePerCoinMinOrderSizeUsd keeps positive values only).
NoOverrides == [k \in CoinKeys |-> 0]

\* variant: the per-coin override is not looked at
defaultMinOrderSizeUsd(coin) == minOrderSizeUsd

\* perCoinOverride ?? config.minOrderSizeUsd
effectiveMinOrderSizeUsd(coin) ==
  IF cfg.perCoinMinOrderSizeUsd[toUpperCase(coin)] # 0
  THEN cfg.perCoinMinOrderSizeUsd[toUpperCase(coin)]
  ELSE minOrderSizeUsd

\* checkOrder: a level is reported as a LargeOrder when it is worth at least
\* the effective minimum of its coin and lies within maxDistancePercent of the mark price on its
\* own side of it.  markPrice = (bestBid + bestAsk) / 2, cleared of the division.
checkOrder(coin, side, level, bestBid, bestAsk) ==
  LET twiceMark == bestBid.price + bestAsk.price
      twiceDistance == IF side = "bid" THEN twiceMark - 2 * level.price
                       ELSE 2 * level.price - twiceMark
  IN /\ level.price * level.size >= effectiveMinOrderSizeUsd(coin)
     /\ twiceDistance >= 0
     /\ twiceDistance * 100 <= maxDistancePercent * twiceMark

\* The LargeOrders processOrderBook emits for a snapshot.
DetectedLargeOrders(snapshot) ==
  LET book == snapshot.book
      found(side, levels) ==
        {[coin |-> snapshot.coin, side |-> side, price |-> levels[i].price,
          valueUsd |-> levels[i].price * levels[i].size] :
           i \in {j \in 1..Len(levels) :
                   checkOrder(snapshot.coin, side, levels[j], book.bids[1],
                              book.asks[1])}}
  IN IF processOrderBookForwards(book)
     THEN found("bid", book.bids) \cup found("ask", book.asks)
     ELSE {}

\* midPrice of onOrderBookSnapshot; 0 stands for null.
MidPrice(book) ==
  IF Len(book.bids) > 0 /\ Len(book.asks) > 0
  THEN (book.bids[1].price + book.asks[1].price) \div 2
  ELSE 0

\* variant: an anchor at the edge of the window counts as out of view
AnchorViewEdgeOut(position, book) ==
  LET side == IF position.anchorSide = "bid" THEN book.bids ELSE book.asks
      first == side[1]
      last == side[Len(side)]
      minVisible == IF position.anchorSide = "bid" THEN last.price ELSE first.price
      maxVisible == IF position.anchorSide = "bid" THEN first.price ELSE last.price
      atAnchor == SelectSeq(side, LAMBDA l : l.price = position.anchorPrice)
  IN [empty |-> Len(side) = 0,
      anchorInRange |-> Len(side) > 0 /\ position.anchorPrice > minVisible
                                     /\ position.anchorPrice < maxVisible,
      movedAgainst |-> Len(side) > 0 /\
                       \/ position.anchorSide = "bid" /\ position.anchorPrice >= maxVisible
                       \/ position.anchorSide = "ask" /\ position.anchorPrice <= minVisible,
      inView |-> Len(atAnchor) > 0,
      currentValueUsd |-> SumSeq([i \in 1..Len(atAnchor) |->
                                   atAnchor[i].price * atAnchor[i].size])]

\* The anchor's place in the book side it was seen on.
AnchorView(position, book) ==
  LET side == IF position.anchorSide = "bid" THEN book.bids ELSE book.asks
      first == side[1]
      last == side[Len(side)]
      minVisible == IF position.anchorSide = "bid" THEN last.price ELSE first.price
      maxVisible == IF position.anchorSide = "bid" THEN first.price ELSE last.price
      atAnchor == SelectSeq(side, LAMBDA l : l.price = position.anchorPrice)
  IN [empty |-> Len(side) = 0,
      anchorInRange |-> Len(side) > 0 /\ position.anchorPrice >= minVisible
                                     /\ position.anchorPrice <= maxVisible,
      movedAgainst |-> Len(side) > 0 /\
                       \/ position.anchorSide = "bid" /\ position.anchorPrice > maxVisible
                       \/ position.anchorSide = "ask" /\ position.anchorPrice < minVisible,
      inView |-> Len(atAnchor) > 0,
      currentValueUsd |-> SumSeq([i \in 1..Len(atAnchor) |->
                                   atAnchor[i].price * atAnchor[i].size])]

\* The paper fill rule of a resting limit order against the mid price.
LimitFilled(o, midPrice) ==
  \/ o.side = "buy" /\ midPrice <= o.price
  \/ o.side = "sell" /\ midPrice >= o.price

\* cancelEntryLimitOrders: the orders it will ask the engine to cancel.
ActiveEntryOrders(position, ords) ==
  SelectSeq(position.entryLimitOrders, LAMBDA o : IsActive(ords[o]))

\* variant: a TP fill that adds the order's size
sizeAfterTpFillAdding(sizeUsd, o) == sizeUsd + o.sizeUsd

\* position.sizeUsd -= order.sizeUsd of the TP-limit fill loop.
sizeAfterTpFill(sizeUsd, o) == sizeUsd - o.sizeUsd

\* variant: a position whose size is exactly zero is kept
sizeExhaustedStrict(sizeUsd) == sizeUsd < 0

\* position.sizeUsd <= 0 after a TP fill or after the TP target loop.
sizeExhausted(sizeUsd) == sizeUsd <= 0

\* The TP-limit fill loop of onOrderBookSnapshot: marks orders filled, lowers
\* sizeUsd, and stops at the fill that brings sizeUsd to zero or below.
RECURSIVE TpLimitFills(_, _, _, _, _)
TpLimitFills(ords, ids, n, sizeUsd, midPrice) ==
  IF n > Len(ids) THEN [orders |-> ords, sizeUsd |-> sizeUsd, allHit |-> FALSE]
  ELSE LET o == ords[ids[n]]
       IN IF o.filled \/ o.cancelled \/ ~LimitFilled(o, midPrice)
          THEN TpLimitFills(ords, ids, n + 1, sizeUsd, midPrice)
          ELSE LET ords2 == [ords EXCEPT ![ids[n]].filled = TRUE]
                   size2 == sizeAfterTpFill(sizeUsd, o)
               IN IF sizeExhausted(size2)
                  THEN [orders |-> ords2, sizeUsd |-> size2, allHit |-> TRUE]
                  ELSE TpLimitFills(ords2, ids, n + 1, size2, midPrice)

\* variant: a target that was hit can fire again
TargetFiresAgain(position, t, midPrice) ==
  /\ t.sizeUsd > 0
  /\ IF position.side = "long" THEN midPrice >= t.price ELSE midPrice <= t.price

\* The market-on-touch TP loop: which targets fire on this mid price.
TargetFires(position, t, midPrice) ==
  /\ ~t.hit
  /\ t.sizeUsd > 0
  /\ IF position.side = "long" THEN midPrice >= t.price ELSE midPrice <= t.price

\* ------------------------------------------------ TradeLogger.createLogEntry
\* tick: the supervisor tick that wrote the entry (0: a snapshot did).
\* pnlUsdByEntryPrice is pnlUsd = (currentSizeUsd * pnlPercent) / 100 with
\* pnlPercent = (priceDiff / entryPrice) * 100, cleared of its division:
\* pnlUsd * entryPrice.
createLogEntry(position, p, ords, exitPrice, closeReason) ==
  LET tpFilled == SelectSeq(position.tpLimitOrders, LAMBDA o : ords[o].filled)
      closedByTp == SumSeq([n \in 1..Len(tpFilled) |-> ords[tpFilled[n]].sizeUsd])
      currentSizeUsd == IF Len(position.tpLimitOrders) > 0
                        THEN position.sizeUsd - closedByTp ELSE position.sizeUsd
      priceDiff == IF position.side = "long" THEN exitPrice - position.entryPrice
                   ELSE position.entryPrice - exitPrice
  IN [pos |-> p, closeReason |-> closeReason, exitPrice |-> exitPrice,
      tick |-> 0, sizeUsd |-> position.sizeUsd,
      currentSizeUsd |-> currentSizeUsd, priceDiff |-> priceDiff,
      pnlUsdByEntryPrice |-> currentSizeUsd * priceDiff]

\* A closePosition call as the engine receives it, and the supervisor tick that
\* made it (0: a snapshot did).
CloseCall(p, reason, sizeUsd) ==
  [pos |-> p, reason |-> reason, sizeUsd |-> sizeUsd, tick |-> 0]

\* The partial closes of the market-on-touch TP loop, in order.
RECURSIVE TpTargetHits(_, _, _, _, _)
TpTargetHits(position, p, n, midPrice, acc) ==
  IF n > Len(position.tpTargets) THEN acc
  ELSE LET t == position.tpTargets[n]
       IN IF TargetFires(position, t, midPrice)
          THEN TpTargetHits(position, p, n + 1, midPrice,
                 [targets |-> [acc.targets EXCEPT ![n].hit = TRUE],
                  sizeUsd |-> acc.sizeUsd - t.sizeUsd,
                  calls |-> Append(acc.calls, CloseCall(p, "tp_hit", t.sizeUsd))])
          ELSE TpTargetHits(position, p, n + 1, midPrice, acc)

\* An in-flight onOrderBookSnapshot call.
NewSnap(snapshot, relevant) ==
  [coin |-> snapshot.coin, book |-> snapshot.book, midPrice |-> MidPrice(snapshot.book),
   relevant |-> relevant, idx |-> 1, pc |-> "pos", toClose |-> <<>>,
   currentValueUsd |-> 0, after |-> "", active |-> <<>>, k |-> 1, j |-> 1,
   natr |-> 0, i |-> 1, placed |-> <<>>]

\* The loop over relevantPositions moves on to the next position.
SnapNext(f, toClose) ==
  [f EXCEPT !.idx = f.idx + 1, !.pc = "pos", !.toClose = toClose, !.after = "",
            !.currentValueUsd = 0, !.active = <<>>, !.k = 1, !.j = 1, !.natr = 0,
            !.i = 1, !.placed = <<>>]

ToClose(p, reason) == [pos |-> p, reason |-> reason]

\* Top of the loop body: the visibility checks, up to the first cancel request
\* or the fill loops.
SnapPos(w) ==
  LET f == w.f
      p == f.relevant[f.idx]
      position == w.positions[p]
      view == AnchorView(position, f.book)
      active == ActiveEntryOrders(position, w.orders)
      degraded == /\ Len(position.entryLimitOrders) > 0
                  /\ view.currentValueUsd * 100 <
                       tradeEntryLimitDensityMinPercent * position.anchorInitialValueUsd
  IN [w EXCEPT !.f =
       IF f.idx > Len(f.relevant) THEN [f EXCEPT !.pc = "final"]
       ELSE IF view.empty THEN SnapNext(f, f.toClose)
       ELSE IF ~view.anchorInRange
            THEN SnapNext(f, IF view.movedAgainst
                             THEN Append(f.toClose,
                                         ToClose(p, "anchor_lost_out_of_view_against"))
                             ELSE f.toClose)
       ELSE IF ~view.inView
            THEN IF Len(active) = 0
                 THEN SnapNext(f, Append(f.toClose,
                                         ToClose(p, "anchor_removed_from_book_in_view")))
                 ELSE [f EXCEPT !.pc = "cancel", !.after = "removed", !.active = active,
                                !.k = 1]
       ELSE IF degraded /\ Len(active) > 0
            THEN [f EXCEPT !.pc = "cancel", !.after = "degraded", !.active = active,
                           !.k = 1, !.currentValueUsd = view.currentValueUsd]
       ELSE [f EXCEPT !.pc = "fill", !.j = 1, !.currentValueUsd = view.currentValueUsd]]

\* Loop head of cancelEntryLimitOrders: engine.cancelLimitOrder returns at once
\* for an order that is already filled or cancelled, else sends the request.
SnapCancel(w) ==
  LET f == w.f
      p == f.relevant[f.idx]
      o == f.active[f.k]
  IN IF f.k > Len(f.active)
     THEN [w EXCEPT !.f =
             IF f.after = "removed"
             THEN SnapNext(f, Append(f.toClose,
                                     ToClose(p, "anchor_removed_from_book_in_view")))
             ELSE [f EXCEPT !.pc = "fill", !.j = 1, !.active = <<>>, !.k = 1,
                            !.after = ""]]
     ELSE IF IsActive(w.orders[o])
          THEN [w EXCEPT !.orders[o].cancelRequested = TRUE,
                         !.f.pc = "cancelWait", !.st = "wait"]
          ELSE [w EXCEPT !.orders[o].cancelRequested = TRUE, !.f.k = f.k + 1]

\* Loop head of the entry-order fill simulation; a fill may start
\* placeLimitTpOrders.
SnapFill(w) ==
  LET f == w.f
      p == f.relevant[f.idx]
      position == w.positions[p]
      o == position.entryLimitOrders[f.j]
      natrNow == getNatr(position.coin)
  IN IF f.midPrice = 0 \/ f.j > Len(position.entryLimitOrders)
     THEN [w EXCEPT !.f.pc = "rest"]
     ELSE IF ~IsActive(w.orders[o]) \/ ~LimitFilled(w.orders[o], f.midPrice)
     THEN [w EXCEPT !.f.j = f.j + 1]
     ELSE [w EXCEPT
             !.orders[o].filled = TRUE,
             !.positions[p].limitFilledSizeUsd =
                 position.limitFilledSizeUsd + w.orders[o].sizeUsd,
             !.f = IF /\ Len(tradeTpLimitProportions) > 0
                      /\ Len(position.tpLimitOrders) = 0
                      /\ natrNow > 0
                      /\ placeLimitTpOrdersCount > 0
                   THEN [f EXCEPT !.pc = "tpPlace", !.natr = natrNow, !.i = 1,
                                  !.placed = <<>>]
                   ELSE [f EXCEPT !.j = f.j + 1]]

\* Loop head of placeLimitTpOrders called from the fill simulation.
SnapTpPlace(w) ==
  LET f == w.f
      p == f.relevant[f.idx]
      position == w.positions[p]
      spec == placeLimitTpOrdersSpec(position, f.natr, f.i)
  IN IF f.i > placeLimitTpOrdersCount
     THEN [w EXCEPT !.positions[p].tpLimitOrders = f.placed,
                    !.f = [f EXCEPT !.pc = "fill", !.j = f.j + 1, !.natr = 0, !.i = 1,
                                    !.placed = <<>>]]
     ELSE IF placeLimitOrderRejectsAtOnce(spec.price, spec.sizeUsd)
          THEN [w EXCEPT !.f.i = f.i + 1]
          ELSE [w EXCEPT !.f.pc = "tpPlaceWait", !.st = "wait"]

\* variant: a value equal to the threshold keeps the position
valueBelowThresholdStrict(currentValueUsd, anchorMinValueUsd) ==
  currentValueUsd < anchorMinValueUsd

\* currentValueUsd <= anchorMinValueUsd of the anchor value check.
valueBelowThreshold(currentValueUsd, anchorMinValueUsd) ==
  currentValueUsd <= anchorMinValueUsd

\* The rest of the loop body, which has no await: the TP-limit fill simulation,
\* the anchor value check and the market-on-touch TP targets.
SnapRest(w) ==
  LET f == w.f
      p == f.relevant[f.idx]
      position == w.positions[p]
      tpRun == IF f.midPrice # 0 /\ Len(position.tpLimitOrders) > 0
               THEN TpLimitFills(w.orders, position.tpLimitOrders, 1, position.sizeUsd,
                                 f.midPrice)
               ELSE [orders |-> w.orders, sizeUsd |-> position.sizeUsd, allHit |-> FALSE]
      close1 == IF tpRun.allHit THEN Append(f.toClose, ToClose(p, "tp_limit_all_hit"))
                ELSE f.toClose
      afterTp == [position EXCEPT !.sizeUsd = tpRun.sizeUsd]
      below == valueBelowThreshold(f.currentValueUsd, position.anchorMinValueUsd)
      targetsRun == f.midPrice # 0 /\ Len(position.tpTargets) > 0
      hits == TpTargetHits(afterTp, p, 1, f.midPrice,
                [targets |-> afterTp.tpTargets, sizeUsd |-> afterTp.sizeUsd,
                 calls |-> <<>>])
  IN IF below
     THEN [w EXCEPT !.orders = tpRun.orders,
                    !.positions[p] = afterTp,
                    !.f = SnapNext(f, Append(close1,
                                             ToClose(p, "anchor_value_below_threshold")))]
     ELSE IF targetsRun
     THEN [w EXCEPT !.orders = tpRun.orders,
                    !.positions[p] = [afterTp EXCEPT !.tpTargets = hits.targets,
                                                     !.sizeUsd = hits.sizeUsd],
                    !.closeLog = w.closeLog \o hits.calls,
                    !.f = SnapNext(f, IF sizeExhausted(hits.sizeUsd)
                                      THEN Append(close1, ToClose(p, "tp_all_hit"))
                                      ELSE close1)]
     ELSE [w EXCEPT !.orders = tpRun.orders,
                    !.positions[p] = afterTp,
                    !.f = SnapNext(f, close1)]

\* After the loop: close and log every queued position, then drop them from the
\* ledger by id.
SnapFinal(w) ==
  LET f == w.f
      n == Len(f.toClose)
      exitPrice(q) == IF f.midPrice # 0 THEN f.midPrice
                      ELSE IF lastPrices[w.positions[q].coin] # 0
                           THEN lastPrices[w.positions[q].coin]
                      ELSE w.positions[q].entryPrice
      idsToClose == {f.toClose[m].pos : m \in 1..n}
  IN [w EXCEPT
        !.closeLog = w.closeLog \o
           [m \in 1..n |-> CloseCall(f.toClose[m].pos, f.toClose[m].reason,
                                     w.positions[f.toClose[m].pos].sizeUsd)],
        !.tradeLog = w.tradeLog \o
           [m \in 1..n |-> createLogEntry(w.positions[f.toClose[m].pos], f.toClose[m].pos,
                                          w.orders, exitPrice(f.toClose[m].pos),
                                          f.toClose[m].reason)],
        !.openPositions = SelectSeq(w.openPositions, LAMBDA q : q \notin idsToClose),
        !.positions = [q \in DOMAIN w.positions |->
                         IF q \in idsToClose /\ w.positions[q].state = "open"
                         THEN [w.positions[q] EXCEPT !.state = "closed"]
                         ELSE w.positions[q]],
        !.st = "end"]

\* One step of onOrderBookSnapshot between two awaits.
SnapStep(w) ==
  CASE w.f.pc = "pos" -> SnapPos(w)
    [] w.f.pc = "cancel" -> SnapCancel(w)
    [] w.f.pc = "fill" -> SnapFill(w)
    [] w.f.pc = "tpPlace" -> SnapTpPlace(w)
    [] w.f.pc = "rest" -> SnapRest(w)
    [] w.f.pc = "final" -> SnapFinal(w)

\* The snapshot handler runs until its next await or its return.
RECURSIVE SnapRun(_)
SnapRun(w) == IF w.st # "run" THEN w ELSE SnapRun(SnapStep(w))

CommitSnap(h, w) ==
  /\ Commit(w)
  /\ snaps' = IF w.st = "end" THEN RemoveKey(snaps, h) ELSE (h :> w.f) @@ snaps

\* A snapshot is delivered: the monitor passes it on unless a side is empty, and
\* onOrderBookSnapshot runs up to its first await.
OnOrderBookSnapshot(snapshot) ==
  LET h == count.snapshots + 1
      relevant == SelectSeq(openPositions,
                    LAMBDA p : positions[p].coin = snapshot.coin
                               /\ positions[p].anchorSide # "none")
      mid == MidPrice(snapshot.book)
  IN
  /\ tradeEnabled
  /\ snapshot.book \in Feed
  /\ Len(relevant) > 0
  /\ count.snapshots < MaxSnapshots
  /\ Delivered < EventBudget
  /\ count' = [count EXCEPT !.snapshots = h]
  /\ IF processOrderBookForwards(snapshot.book)
     THEN /\ lastPrices' = IF mid # 0 THEN [lastPrices EXCEPT ![snapshot.coin] = mid]
                           ELSE lastPrices
          /\ CommitSnap(h, SnapRun(World(NewSnap(snapshot, relevant))))
          /\ UNCHANGED <<natr, cfg, anchors, serviceVars, entries, sups, skipLog>>
     ELSE /\ skipLog' = skipLog \cup {"book_side_empty"}
          /\ UNCHANGED <<openPositions, positions, orders, pendingCoins, lastPrices,
                         natr, cfg, anchors, serviceVars, entries, snaps, sups, closeLog, tradeLog>>

\* BinanceExecutionEngine.cancelLimitOrder answers a snapshot's request: the
\* order was cancelled or is unknown to the exchange (cancelled := true), or the
\* request failed (logged, nothing changes).
SnapCancelReturn(h, marked) ==
  LET f == snaps[h]
      o == f.active[f.k]
  IN
  /\ h \in DOMAIN snaps
  /\ f.pc = "cancelWait"
  /\ CommitSnap(h, SnapRun([World([f EXCEPT !.pc = "cancel", !.k = f.k + 1]) EXCEPT
         !.orders = IF marked THEN [orders EXCEPT ![o].cancelled = TRUE] ELSE orders]))
  /\ EngineAnswer(marked)
  /\ UNCHANGED <<lastPrices, natr, cfg, anchors, serviceVars, entries, sups, skipLog>>

\* engine.placeLimitOrder answers a snapshot's TP request: the order, or null.
SnapTpPlaceReturn(h, ok) ==
  LET f == snaps[h]
      p == f.relevant[f.idx]
      position == positions[p]
      spec == placeLimitTpOrdersSpec(position, f.natr, f.i)
      resumed == [f EXCEPT !.pc = "tpPlace", !.i = f.i + 1,
                           !.placed = IF ok THEN Append(f.placed, Len(orders) + 1)
                                      ELSE f.placed]
  IN
  /\ h \in DOMAIN snaps
  /\ f.pc = "tpPlaceWait"
  /\ CommitSnap(h, SnapRun([World(resumed) EXCEPT
         !.orders = IF ok THEN Append(orders, NewOrder(p, position.coin, spec.side,
                                                       spec.price, spec.sizeUsd, "tp"))
                    ELSE orders]))
  /\ EngineAnswer(ok)
  /\ UNCHANGED <<lastPrices, natr, cfg, anchors, serviceVars, entries, sups, skipLog>>

\* =============================================================== supervisor
\* pnlUsd < -tradeMaxRiskPerTrade of checkPnlAndEmergencyClose, cleared of its
\* divisions (entryPrice > 0).
RiskExceeded(position, currentPrice) ==
  LET priceDiff == IF position.side = "long" THEN currentPrice - position.entryPrice
                   ELSE position.entryPrice - currentPrice
  IN position.sizeUsd * priceDiff < -(tradeMaxRiskPerTrade * position.entryPrice)

\* variant: the supervisor asks for no cancel at all
NeedsCancelNever(o) == FALSE

\* The guard of cancelAllLimitOrdersForPosition on each order.
NeedsCancel(o) == ~o.cancelled /\ ~o.filled

\* BinanceExecutionEngine.closePosition returns before any request when the
\* quantity to close normalizes to zero (no sizeContracts, nothing left).
closePositionReturnsAtOnce(position) ==
  position.marketFilledSizeUsd = 0 /\ position.sizeUsd <= 0

\* After closePosition answered: log the trade, drop the position from the
\* ledger, and go on with the next index of the live ledger.
SupRemove(w) ==
  LET f == w.f
      position == w.positions[f.pos]
  IN [w EXCEPT
        !.tradeLog = Append(w.tradeLog,
            [createLogEntry(position, f.pos, w.orders, f.currentPrice,
                            "emergency_stop_loss_pnl") EXCEPT !.tick = f.tick]),
        !.openPositions = SelectSeq(w.openPositions, LAMBDA q : q # f.pos),
        !.positions[f.pos].state = IF position.state = "open" THEN "closed"
                                   ELSE position.state,
        !.f = [f EXCEPT !.pc = "iter", !.idx = f.idx + 1, !.pos = 0,
                        !.currentPrice = 0, !.allOrders = <<>>, !.k = 1]]

\* One step of checkPnlAndEmergencyClose between two awaits: the head of the
\* loop over the ledger, or the head of the loop of
\* cancelAllLimitOrdersForPosition followed by the closePosition call.
SupStep(w) ==
  LET f == w.f
      p == w.openPositions[f.idx]
      position == w.positions[p]
      currentPrice == lastPrices[position.coin]
      o == f.allOrders[f.k]
      called == [w EXCEPT !.closeLog = Append(w.closeLog,
                   [CloseCall(f.pos, "emergency_stop_loss_pnl",
                              w.positions[f.pos].sizeUsd) EXCEPT !.tick = f.tick])]
  IN
  CASE f.pc = "iter" ->
         IF f.idx > Len(w.openPositions) THEN [w EXCEPT !.st = "end"]
         ELSE IF currentPrice # 0 /\ RiskExceeded(position, currentPrice)
         THEN [w EXCEPT !.f = [f EXCEPT !.pc = "cancelAll", !.pos = p,
                                        !.currentPrice = currentPrice,
                                        !.allOrders = position.entryLimitOrders
                                                        \o position.tpLimitOrders,
                                        !.k = 1]]
         ELSE [w EXCEPT !.f.idx = f.idx + 1]
    [] f.pc = "cancelAll" ->
         IF f.k > Len(f.allOrders)
         THEN IF closePositionReturnsAtOnce(w.positions[f.pos])
              THEN SupRemove(called)
              ELSE [called EXCEPT !.f.pc = "closeWait", !.st = "wait"]
         ELSE IF NeedsCancel(w.orders[o])
              THEN [w EXCEPT !.orders[o].cancelRequested = TRUE,
                             !.f.pc = "cancelWait", !.st = "wait"]
              ELSE [w EXCEPT !.f.k = f.k + 1]

\* The supervisor runs until its next await or its return.
RECURSIVE SupRun(_)
SupRun(w) == IF w.st # "run" THEN w ELSE SupRun(SupStep(w))

CommitSup(h, w) ==
  /\ Commit(w)
  /\ sups' = IF w.st = "end" THEN RemoveKey(sups, h) ELSE (h :> w.f) @@ sups

\* The positions of the ledger whose loss at the last mid price exceeds
\* tradeMaxRiskPerTrade.
AtRisk ==
  {p \in SeqToSet(openPositions) :
     /\ lastPrices[positions[p].coin] # 0
     /\ RiskExceeded(positions[p], lastPrices[positions[p].coin])}

\* The timer fires checkPnlAndEmergencyClose.  atRisk is a history field: the
\* positions at risk when the tick started.
SupervisorTick ==
  LET h == count.ticks + 1
  IN
  /\ pnlCheckInterval = "set"
  /\ tradeMaxRiskPerTrade > 0
  /\ Len(openPositions) > 0
  /\ count.ticks < MaxTicks
  /\ Delivered < EventBudget
  /\ count' = [count EXCEPT !.ticks = h]
  /\ CommitSup(h, SupRun(World([tick |-> h, idx |-> 1, pc |-> "iter", pos |-> 0,
                                currentPrice |-> 0, allOrders |-> <<>>, k |-> 1,
                                atRisk |-> AtRisk])))
  /\ UNCHANGED <<lastPrices, natr, cfg, anchors, serviceVars, entries, snaps, skipLog>>

\* engine.cancelLimitOrder answers the supervisor's request.  The engine marks
\* the order cancelled unless the request failed; cancelAllLimitOrdersForPosition
\* then marks it cancelled itself, whatever happened to it meanwhile.
SupCancelReturn(h, marked) ==
  LET f == sups[h]
      o == f.allOrders[f.k]
      engineDone == IF marked THEN [orders EXCEPT ![o].cancelled = TRUE] ELSE orders
  IN
  /\ h \in DOMAIN sups
  /\ f.pc = "cancelWait"
  /\ CommitSup(h, SupRun([World([f EXCEPT !.pc = "cancelAll", !.k = f.k + 1]) EXCEPT
         !.orders = [engineDone EXCEPT ![o].cancelled = TRUE]]))
  /\ EngineAnswer(marked)
  /\ UNCHANGED <<lastPrices, natr, cfg, anchors, serviceVars, entries, snaps, skipLog>>

\* engine.closePosition answers the supervisor: done, or it threw, which ends
\* the tick (the error is caught by the timer callback).
SupCloseReturn(h, ok) ==
  LET f == sups[h]
  IN
  /\ h \in DOMAIN sups
  /\ f.pc = "closeWait"
  /\ CommitSup(h, IF ok THEN SupRun(SupRemove(World(f)))
                  ELSE [World(f) EXCEPT !.st = "end"])
  /\ EngineAnswer(ok)
  /\ UNCHANGED <<lastPrices, natr, cfg, anchors, serviceVars, entries, snaps, skipLog>>

\* The orders for which engine.cancelLimitOrder has been called.
CancelRequests == {o \in 1..Len(orders) : orders[o].cancelRequested}

\* The engine.placeLimitOrder calls awaiting their answer: the handler, its
\* stage and its loop index.
EntryPlaceRequests ==
  {<<h, entries[h].pc, entries[h].i>> :
     h \in {e \in DOMAIN entries : entries[e].pc \in {"entryPlaceWait", "tpPlaceWait"}}}

SnapPlaceRequests ==
  {<<h, snaps[h].idx, snaps[h].i>> :
     h \in {e \in DOMAIN snaps : snaps[e].pc = "tpPlaceWait"}}

\* shutdown(): clearInterval of the supervisor's timer, and a log line.  The
\* history in returned holds what had been issued when shutdown was called.
Shutdown ==
  /\ pnlCheckInterval = "set"
  /\ pnlCheckInterval' = "cleared"
  /\ returned' = [call |-> "shutdown", ticks |-> count.ticks,
                  closeCalls |-> Len(closeLog), cancelRequests |-> CancelRequests]
  /\ UNCHANGED <<openPositions, positions, orders, pendingCoins, lastPrices, natr, cfg,
                 anchors, entries, snaps, sups, count, skipLog, closeLog, tradeLog,
                 rules, period, calculators, client, now, engine, telegram,
                 candleFeed>>

\* ========================================================= HyperliquidClient
maxReconnectAttempts == 10
reconnectDelay == 5000
maxReconnectDelay == 60000
StreamCoins == {"BTC", "ETH"}

Min(a, b) == IF a < b THEN a ELSE b

\* new HyperliquidClient().  sockets holds every WebSocket the client created
\* (ws is the index of the current one, 0 for null); timers the pending
\* setTimeout callbacks of handleReconnect; subscriptions and tradeSubscriptions
\* the keys of the two maps in insertion order.  History fields: sent and
\* dispatched are the messages sent on and dispatched from the current socket,
\* closes counts the close events since the last open, gaveUp records the
\* "giving up" log.
NewClient ==
  [ws |-> 0, sockets |-> <<>>, isConnected |-> FALSE, reconnectAttempts |-> 0,
   subscriptions |-> <<>>, tradeSubscriptions |-> <<>>, timers |-> {},
   sent |-> <<>>, dispatched |-> <<>>, closes |-> 0, gaveUp |-> FALSE,
   disconnected |-> FALSE]

\* this.ws = new WebSocket(url) in connect(); resubscribes tells whether the
\* caller is the reconnect timer, which calls resubscribeAll once connect()
\* resolves.
connect(c, resubscribes) ==
  [c EXCEPT !.sockets = Append(c.sockets, [readyState |-> "CONNECTING",
                                           resubscribes |-> resubscribes]),
            !.ws = Len(c.sockets) + 1,
            !.sent = <<>>, !.dispatched = <<>>]

\* this.ws && this.ws.readyState === WebSocket.OPEN
socketIsOpen(c) == c.ws # 0 /\ c.sockets[c.ws].readyState = "OPEN"

Subscribe(c, type, coin) ==
  [c EXCEPT !.sent = Append(c.sent, [socket |-> c.ws, type |-> type, coin |-> coin])]

sendSubscription(c, coin) == IF ~socketIsOpen(c) THEN c ELSE Subscribe(c, "l2Book", coin)

\* resubscribeAll from the n-th key of this.subscriptions on.
RECURSIVE resubscribeAll(_, _)
resubscribeAll(c, n) ==
  IF n > Len(c.subscriptions) THEN c
  ELSE resubscribeAll(sendSubscription(c, c.subscriptions[n]), n + 1)

\* reconnectDelay * Math.pow(2, attempt - 1)
backoffUncapped(attempt) == reconnectDelay * 2 ^ (attempt - 1)

\* Math.min(reconnectDelay * Math.pow(2, attempt - 1), 60000)
backoff(attempt) == Min(backoffUncapped(attempt), maxReconnectDelay)

\* variant: one more attempt is allowed
exhaustedLate(attempts) == attempts > maxReconnectAttempts

\* this.reconnectAttempts >= this.maxReconnectAttempts
exhausted(attempts) == attempts >= maxReconnectAttempts

handleReconnect(c) ==
  IF exhausted(c.reconnectAttempts) THEN [c EXCEPT !.gaveUp = TRUE]
  ELSE [c EXCEPT !.reconnectAttempts = c.reconnectAttempts + 1,
                 !.timers = c.timers \cup
                    {[attempt |-> c.reconnectAttempts + 1,
                      delay |-> backoff(c.reconnectAttempts + 1)]}]

\* initialize(): the first connect(); the program calls it once, at start-up.
Initialize ==
  /\ client.ws = 0
  /\ ~client.disconnected
  /\ client' = connect(client, FALSE)
  /\ UNCHANGED <<tradingVars, policyVars, natrVars, returned, now, engineVars, notifierVars>>

\* The 'open' event of socket s, and the continuation of the reconnect timer
\* when connect() resolves.
SocketOpen(s) ==
  LET opened == [client EXCEPT !.sockets[s].readyState = "OPEN",
                               !.isConnected = TRUE, !.reconnectAttempts = 0,
                               !.closes = 0]
  IN
  /\ client.sockets[s].readyState = "CONNECTING"
  /\ client' = IF client.sockets[s].resubscribes THEN resubscribeAll(opened, 1)
                ELSE opened
  /\ UNCHANGED <<tradingVars, policyVars, natrVars, returned, now, engineVars, notifierVars>>

\* The 'close' event of socket s: an open socket closes, or a connection
\* attempt fails ('error', which rejects connect(), then 'close').
SocketClose(s) ==
  /\ client.sockets[s].readyState \in {"CONNECTING", "OPEN", "CLOSING"}
  /\ client' = handleReconnect([client EXCEPT !.sockets[s].readyState = "CLOSED",
                                              !.isConnected = FALSE,
                                              !.closes = client.closes + 1])
  /\ UNCHANGED <<tradingVars, policyVars, natrVars, returned, now, engineVars, notifierVars>>

\* The setTimeout callback of handleReconnect fires after its delay.
ReconnectTimer(t) ==
  /\ t \in client.timers
  /\ Len(client.sockets) < MaxSockets
  /\ client' = connect([client EXCEPT !.timers = client.timers \ {t}], TRUE)
  /\ UNCHANGED <<tradingVars, policyVars, natrVars, returned, now, engineVars, notifierVars>>

\* disconnect(): stopPing, this.ws.close() and this.ws = null.  close() starts the
\* closing handshake of a socket that is not closed yet; its 'close' event comes
\* later.  disconnected is a history field.
Disconnect ==
  /\ ~client.disconnected
  /\ client' = IF client.ws = 0 THEN [client EXCEPT !.disconnected = TRUE]
                ELSE [client EXCEPT
                        !.sockets[client.ws].readyState =
                           IF @ \in {"CONNECTING", "OPEN"} THEN "CLOSING" ELSE @,
                        !.ws = 0, !.disconnected = TRUE]
  /\ UNCHANGED <<tradingVars, policyVars, natrVars, returned, now, engineVars, notifierVars>>

\* subscribeToOrderBook for a coin that has no subscription yet.
SubscribeToOrderBook(coin) ==
  /\ coin \notin SeqToSet(client.subscriptions)
  /\ client' = sendSubscription(
                 [client EXCEPT !.subscriptions = Append(client.subscriptions, coin)],
                 coin)
  /\ UNCHANGED <<tradingVars, policyVars, natrVars, returned, now, engineVars, notifierVars>>

\* subscribeToTrades for a coin that has no trade subscription yet.
SubscribeToTrades(coin) ==
  LET added == [client EXCEPT
                  !.tradeSubscriptions = Append(client.tradeSubscriptions, coin)]
  IN
  /\ coin \notin SeqToSet(client.tradeSubscriptions)
  /\ client' = IF socketIsOpen(client) THEN Subscribe(added, "trades", coin) ELSE added
  /\ UNCHANGED <<tradingVars, policyVars, natrVars, returned, now, engineVars, notifierVars>>

\* The 'message' event: the server sends data of a channel it was asked for on
\* this socket, and handleMessage hands it to the callbacks of the coin.
SocketMessage(type, coin) ==
  LET subscribed == IF type = "l2Book" THEN client.subscriptions
                    ELSE client.tradeSubscriptions
  IN
  /\ socketIsOpen(client)
  /\ \E n \in 1..Len(client.sent) :
        client.sent[n] = [socket |-> client.ws, type |-> type, coin |-> coin]
  /\ Len(client.dispatched) < MaxMessages
  /\ client' = IF coin \in SeqToSet(subscribed)
                THEN [client EXCEPT !.dispatched =
                        Append(client.dispatched, [type |-> type, coin |-> coin])]
                ELSE client
  /\ UNCHANGED <<tradingVars, policyVars, natrVars, returned, now, engineVars, notifierVars>>

\* ========================================================== ExecutionEngine
\* Quantities are in units of a tenth of the LOT_SIZE step.
lotSize == 10
SAFETY_MARGIN == 110        \* percent
emergencyMargin == 120      \* percent

\* A BinanceExecutionEngine (live when both keys are set and tradeMode is
\* TRADE_LIVE) or a PaperExecutionEngine.  held is the position the exchange
\* holds for the coin, orders the LimitOrderState objects handed out (with
\* onExchange, the state of the order on the exchange), positions the
\* PositionState objects handed out.  History fields: requests counts the
\* order requests sent (POST and DELETE /fapi/v1/order), calls the calls made.
NewEngine(venue, live) ==
  [venue |-> venue, live |-> live, held |-> 0, orders |-> <<>>, positions |-> <<>>,
   requests |-> 0, calls |-> 0]

\* isLive()
isLive(e) == e.venue = "BINANCE" /\ e.live

\* normalizeQuantity for quantityRaw = num / den: Math.floor(quantityRaw / lotSize) * lotSize
normalizeQuantity(num, den) == ((num \div den) \div lotSize) * lotSize

Called(e) == [e EXCEPT !.calls = e.calls + 1]

\* openPosition(signal); response is the exchange's answer to the MARKET order.
\* The result is a pair of the engine and what the call returned.
openPosition(e, signal, response) ==
  LET quantity == normalizeQuantity(signal.targetPositionSizeUsd * lotSize,
                                    signal.referencePrice)
      position == [sizeContracts |-> quantity, sizeUsd |-> signal.targetPositionSizeUsd,
                   entryPrice |-> signal.referencePrice, tpTargets |-> <<>>]
      out(next, quantityOut, responseOut, resultOut) ==
        <<Called(next), [call |-> "openPosition", quantity |-> quantityOut,
                         response |-> responseOut, result |-> resultOut,
                         threw |-> FALSE]>>
  IN
  IF e.venue = "PAPER"
  THEN out([e EXCEPT !.positions =
              Append(e.positions, [sizeContracts |-> 0,
                                   sizeUsd |-> signal.targetPositionSizeUsd,
                                   entryPrice |-> signal.referencePrice,
                                   tpTargets |-> <<>>])],
           0, "none", "position")
  ELSE IF ~isLive(e) THEN out(e, 0, "none", "null")
  ELSE IF signal.referencePrice <= 0 THEN out(e, 0, "none", "null")
  ELSE IF signal.targetPositionSizeUsd <= 0 THEN out(e, 0, "none", "null")
  ELSE IF quantity <= 0 THEN out(e, quantity, "none", "null")
  ELSE IF response = "ok"
  THEN out([e EXCEPT !.requests = e.requests + 1, !.held = e.held + quantity,
                     !.positions = Append(e.positions, position)],
           quantity, response, "position")
  ELSE out([e EXCEPT !.requests = e.requests + 1], quantity, response, "null")

\* placeLimitOrder(coin, side, price, sizeUsd, purpose, contracts); contracts
\* is 0 when the optional argument is not passed.
placeLimitOrder(e, price, sizeUsd, purpose, contracts, response) ==
  LET quantity == IF contracts > 0 THEN normalizeQuantity(contracts, 1)
                  ELSE normalizeQuantity(sizeUsd * lotSize, price)
      order(id, qty, where) ==
        [orderId |-> id, purpose |-> purpose, contracts |-> qty, filled |-> FALSE,
         cancelled |-> FALSE, cancelledAt |-> 0, onExchange |-> where]
      out(next, quantityOut, responseOut, resultOut) ==
        <<Called(next), [call |-> "placeLimitOrder", quantity |-> quantityOut,
                         response |-> responseOut, result |-> resultOut,
                         threw |-> FALSE]>>
  IN
  IF e.venue = "PAPER"
  THEN out([e EXCEPT !.orders = Append(e.orders, order("paper-limit", contracts, "none"))],
           contracts, "none", "order")
  ELSE IF ~isLive(e) THEN out(e, 0, "none", "null")
  ELSE IF price <= 0 THEN out(e, 0, "none", "null")
  ELSE IF quantity <= 0 THEN out(e, quantity, "none", "null")
  ELSE IF response = "ok"
  THEN out([e EXCEPT !.requests = e.requests + 1,
                     !.orders = Append(e.orders, order("binance", quantity, "open"))],
           quantity, response, "order")
  ELSE out([e EXCEPT !.requests = e.requests + 1], quantity, response, "null")

\* variant: only -2011 is taken for an unknown order
onlyUnknownOrder(response) == response = "-2011"

\* errorMsg.includes('-2011') || errorMsg.includes('-2013')
unknownOrder(response) == response \in {"-2011", "-2013"}

\* variant: an order that was cancelled or filled is cancelled again
alreadyDoneIgnored(order) == FALSE

\* order.cancelled || order.filled
alreadyDone(order) == order.cancelled \/ order.filled

\* cancelLimitOrder(order) for the n-th order handed out, at time t; response is
\* the exchange's answer to the DELETE request.
cancelLimitOrder(e, n, t, response) ==
  LET order == e.orders[n]
      marked == [e EXCEPT !.orders[n].cancelled = TRUE, !.orders[n].cancelledAt = t]
      out(next, responseOut, skippedOut) ==
        <<Called(next), [call |-> "cancelLimitOrder", order |-> n,
                         response |-> responseOut, result |-> "void",
                         skipped |-> skippedOut, threw |-> FALSE]>>
  IN
  IF e.venue = "PAPER"
  THEN IF alreadyDone(order) THEN out(e, "none", TRUE) ELSE out(marked, "none", FALSE)
  ELSE IF ~isLive(e) THEN out(e, "none", FALSE)
  ELSE IF alreadyDone(order) THEN out(e, "none", TRUE)
  ELSE IF order.orderId # "binance" THEN out(e, "none", FALSE)
  ELSE IF response = "ok"
  THEN out([marked EXCEPT !.requests = e.requests + 1,
                          !.orders[n].onExchange = "cancelled"], response, FALSE)
  ELSE IF unknownOrder(response)
  THEN out([marked EXCEPT !.requests = e.requests + 1], response, FALSE)
  ELSE out([e EXCEPT !.requests = e.requests + 1], response, FALSE)

\* What a reduce-only MARKET order of the given quantity leaves of the position.
Reduced(held, quantity) == IF quantity >= held THEN 0 ELSE held - quantity

\* closePosition(position, reason).  response is the exchange's answer to the
\* close order, positionRisk whether the request of getPositionContracts
\* succeeds, cleanupAnswer the exchange's answer to the emergency order.  The
\* history fields before and held are the exchange's position before and after.
closePositionOf(e, position, reason, response, positionRisk, cleanupAnswer) ==
  LET quantity == IF position.sizeContracts > 0
                  THEN normalizeQuantity(position.sizeContracts * SAFETY_MARGIN, 100)
                  ELSE normalizeQuantity(position.sizeUsd * lotSize * SAFETY_MARGIN,
                                         position.entryPrice * 100)
      closed == [e EXCEPT !.requests = e.requests + 1,
                          !.held = Reduced(e.held, quantity)]
      \* getPositionContracts: null when the request fails or positionAmt is 0
      remaining == IF positionRisk = "ok" THEN closed.held ELSE 0
      emergencyQty == normalizeQuantity(remaining * emergencyMargin, 100)
      cleaned == IF cleanupAnswer = "ok"
                 THEN [closed EXCEPT !.requests = closed.requests + 1,
                                     !.held = Reduced(closed.held, emergencyQty)]
                 ELSE [closed EXCEPT !.requests = closed.requests + 1]
      out(next, quantityOut, responseOut, observedOut, emergencyOut, threwOut) ==
        <<Called(next), [call |-> "closePosition", quantity |-> quantityOut,
                         response |-> responseOut, result |-> "void",
                         positionRisk |-> observedOut, emergency |-> emergencyOut,
                         held |-> next.held, threw |-> threwOut,
                         reason |-> reason, before |-> e.held]>>
  IN
  IF e.venue = "PAPER" THEN out(e, 0, "none", "none", FALSE, FALSE)
  ELSE IF ~isLive(e) THEN out(e, 0, "none", "none", FALSE, FALSE)
  ELSE IF quantity <= 0 THEN out(e, quantity, "none", "none", FALSE, FALSE)
  ELSE IF response # "ok"
  THEN out([e EXCEPT !.requests = e.requests + 1], quantity, response, positionRisk,
           FALSE, TRUE)
  ELSE IF remaining > 0 THEN out(cleaned, quantity, response, positionRisk, TRUE, FALSE)
  ELSE out(closed, quantity, response, positionRisk, FALSE, FALSE)

\* closePosition(position, reason) for the n-th position handed out.
closePosition(e, n, response, positionRisk, cleanupAnswer) ==
  closePositionOf(e, e.positions[n], "close", response, positionRisk, cleanupAnswer)

Signals == {[referencePrice |-> pr, targetPositionSizeUsd |-> usd] :
              pr \in {0, 100}, usd \in {50, 100, 250}}
OrderResponses == {"ok", "-4003"}
\* The answers of the exchange to DELETE /fapi/v1/order: an open order is
\* cancelled, an order that is no longer open is unknown, and any request
\* can fail for another reason.
CancelResponses(order) ==
  IF order.onExchange = "open" THEN {"ok", "-1021"} ELSE {"-2011", "-2013", "-1021"}
ReadResponses == {"ok", "failed"}

OpenPosition(signal, response) ==
  LET done == openPosition(engine, signal, response) IN
  /\ engine.calls < MaxCalls
  /\ Len(engine.positions) < MaxEnginePositions
  /\ engine' = done[1]
  /\ returned' = done[2]
  /\ UNCHANGED <<tradingVars, policyVars, natrVars, clientVars, now, notifierVars>>

PlaceLimitOrder(price, sizeUsd, purpose, contracts, response) ==
  LET done == placeLimitOrder(engine, price, sizeUsd, purpose, contracts, response) IN
  /\ engine.calls < MaxCalls
  /\ Len(engine.orders) < MaxEngineOrders
  /\ engine' = done[1]
  /\ returned' = done[2]
  /\ UNCHANGED <<tradingVars, policyVars, natrVars, clientVars, now, notifierVars>>

CancelLimitOrder(n, response) ==
  LET done == cancelLimitOrder(engine, n, now, response) IN
  /\ engine.calls < MaxCalls
  /\ response \in CancelResponses(engine.orders[n])
  /\ engine' = done[1]
  /\ returned' = done[2]
  /\ UNCHANGED <<tradingVars, policyVars, natrVars, clientVars, now, notifierVars>>

ClosePosition(n, response, positionRisk, cleanupAnswer) ==
  LET done == closePosition(engine, n, response, positionRisk, cleanupAnswer) IN
  /\ engine.calls < MaxCalls
  /\ engine' = done[1]
  /\ returned' = done[2]
  /\ UNCHANGED <<tradingVars, policyVars, natrVars, clientVars, now, notifierVars>>

\* The trading module sets the TP targets of a position it opened at market:
\* target idx takes tradeTpPercents[idx] of the size.
SetupTpTargets(n) ==
  LET position == engine.positions[n] IN
  /\ position.tpTargets = <<>>
  /\ engine' = [engine EXCEPT !.positions[n].tpTargets =
                  [idx \in 1..Len(tradeTpPercents) |->
                     [sizeUsd |-> (position.sizeUsd * tradeTpPercents[idx]) \div 100,
                      hit |-> FALSE]]]
  /\ UNCHANGED <<tradingVars, policyVars, natrVars, clientVars, now, notifierVars, returned>>

\* The price touches TP target idx of position n: the trading module calls
\* closePosition with { ...position, sizeUsd: target.sizeUsd } and reason tp_hit,
\* subtracts the target's size from the position and marks the target hit.
\* History: targetContracts is the target's size in contracts, targetsLeft
\* whether another target is still unhit.
TpHit(n, idx, response, positionRisk, cleanupAnswer) ==
  LET position == engine.positions[n]
      target == position.tpTargets[idx]
      partial == [position EXCEPT !.sizeUsd = target.sizeUsd]
      done == closePositionOf(engine, partial, "tp_hit", response, positionRisk,
                              cleanupAnswer)
  IN
  /\ engine.calls < MaxCalls
  /\ idx \in DOMAIN position.tpTargets
  /\ ~target.hit
  /\ target.sizeUsd > 0
  /\ engine' = [done[1] EXCEPT !.positions[n].sizeUsd = position.sizeUsd - target.sizeUsd,
                               !.positions[n].tpTargets[idx].hit = TRUE]
  /\ returned' = [targetContracts |-> IF position.entryPrice > 0
                                      THEN normalizeQuantity(target.sizeUsd * lotSize,
                                                             position.entryPrice)
                                      ELSE 0,
                  targetsLeft |-> \E other \in DOMAIN position.tpTargets :
                                     other # idx /\ ~position.tpTargets[other].hit]
                 @@ done[2]
  /\ UNCHANGED <<tradingVars, policyVars, natrVars, clientVars, now, notifierVars>>

\* The trading module marks a limit order filled when the price crosses it
\* (order.filled = true).
OrderMarkedFilled(n) ==
  /\ ~engine.orders[n].filled
  /\ ~engine.orders[n].cancelled
  /\ engine' = [engine EXCEPT !.orders[n].filled = TRUE]
  /\ UNCHANGED <<tradingVars, policyVars, natrVars, clientVars, now, notifierVars, returned>>

\* The exchange fills an open limit order.
ExchangeFill(n) ==
  /\ engine.orders[n].onExchange = "open"
  /\ engine' = [engine EXCEPT
       !.orders[n].onExchange = "filled",
       !.held = IF engine.orders[n].purpose = "entry"
                THEN engine.held + engine.orders[n].contracts
                ELSE Reduced(engine.held, engine.orders[n].contracts)]
  /\ UNCHANGED <<tradingVars, policyVars, natrVars, clientVars, now, notifierVars, returned>>

\* Time passes.
Tick ==
  /\ now < MaxNow
  /\ now' = now + 1
  /\ UNCHANGED <<tradingVars, policyVars, natrVars, clientVars, engineVars, notifierVars,
                 returned>>

\* ============================================================= AnchorMemory
\* variant: a trade without profit counts as a win
isWinOrFlat(pnlUsd) == pnlUsd >= 0

\* pnlUsd > 0
isWin(pnlUsd) == pnlUsd > 0

\* recordTrade(anchorId, pnlUsd, pnlPercent, sizeUsd) at time t on the map of
\* an enabled AnchorMemory (the trading module constructs it enabled).  The
\* running mean avgPnlPercent is left out.
recordTrade(map, anchorId, pnlUsd, sizeUsd, t) ==
  LET key == getAnchorKey(anchorId)
      stats == IF key \in DOMAIN map THEN map[key]
               ELSE [totalTrades |-> 0, winTrades |-> 0, lossTrades |-> 0,
                     firstTradeAt |-> t, lastTradeAt |-> t, totalPnlUsd |-> 0,
                     lastTradeSize |-> sizeUsd]
      updated == [stats EXCEPT
                    !.totalTrades = stats.totalTrades + 1,
                    !.lastTradeAt = t,
                    !.lastTradeSize = sizeUsd,
                    !.totalPnlUsd = stats.totalPnlUsd + pnlUsd,
                    !.winTrades = IF isWin(pnlUsd) THEN stats.winTrades + 1 ELSE @,
                    !.lossTrades = IF ~isWin(pnlUsd) /\ pnlUsd < 0
                                   THEN stats.lossTrades + 1 ELSE @]
  IN [k \in DOMAIN map \cup {key} |-> IF k = key THEN updated ELSE map[k]]

\* clearAnchor(anchorId)
clearAnchor(map, anchorId) ==
  [k \in DOMAIN map \ {getAnchorKey(anchorId)} |-> map[k]]

AnchorIds == {[coin |-> "BTC", anchorPrice |-> price, side |-> "bid"] : price \in {100, 110}}
memoryFrame == <<openPositions, positions, orders, pendingCoins, lastPrices, natr, cfg,
                 entries, snaps, sups, count, skipLog, closeLog, tradeLog,
                 pnlCheckInterval, candleFeed>>

RecordTrade(anchorId, pnlUsd) ==
  /\ getAnchorKey(anchorId) \in DOMAIN anchors =>
       anchors[getAnchorKey(anchorId)].totalTrades < MaxTrades
  /\ anchors' = recordTrade(anchors, anchorId, pnlUsd, 100, now)
  /\ returned' = [call |-> "recordTrade", key |-> getAnchorKey(anchorId),
                  pnlUsd |-> pnlUsd]
  /\ UNCHANGED <<memoryFrame, policyVars, natrVars, peripheralVars>>

ClearAnchor(anchorId) ==
  /\ anchors' = clearAnchor(anchors, anchorId)
  /\ returned' = [call |-> "clearAnchor", key |-> getAnchorKey(anchorId)]
  /\ UNCHANGED <<memoryFrame, policyVars, natrVars, peripheralVars>>

\* clearAll()
ClearAll ==
  /\ anchors' = <<>>
  /\ returned' = [call |-> "clearAll"]
  /\ UNCHANGED <<memoryFrame, policyVars, natrVars, peripheralVars>>

\* ========================================================= TelegramNotifier
alertCooldownMs == 60000
cleanupAgeMs == 3600000
AlertKeys == Coins \X {"bid", "ask"}

\* `${order.coin}-${order.side}`
alertKey(order) == <<order.coin, order.side>>

\* new TelegramNotifier().  lastAlerts maps an alert key to the time of its
\* last alert, 0 for a key without entry; alertCooldownMs is the configured
\* ALERT_COOLDOWN_MS.  History fields: pending counts the
\* sendMessage requests awaiting an answer, lastEmitted is the time of the last
\* alert sent for a key, elapses counts the advances of the clock.
NewNotifier ==
  [initialized |-> FALSE, isEnabled |-> FALSE, lastAlerts |-> [k \in AlertKeys |-> 0],
   globalRateLimitUntil |-> 0, pending |-> 0, lastEmitted |-> [k \in AlertKeys |-> 0],
   elapses |-> 0, alertCooldownMs |-> alertCooldownMs]

\* lastAlert && now - lastAlert < config.alertCooldownMs
inCooldown(lastAlert, t, cooldown) == lastAlert # 0 /\ t - lastAlert < cooldown

\* sendAlert(order) at time t, up to the await of sendMessage.
sendAlert(tg, order, t) ==
  IF ~tg.isEnabled THEN tg
  ELSE IF t < tg.globalRateLimitUntil THEN tg
  ELSE IF inCooldown(tg.lastAlerts[alertKey(order)], t, tg.alertCooldownMs) THEN tg
  ELSE [tg EXCEPT !.lastAlerts[alertKey(order)] = t,
                  !.lastEmitted[alertKey(order)] = t,
                  !.pending = tg.pending + 1]

\* timestamp < oneHourAgo
stale(timestamp, t) == timestamp < t - cleanupAgeMs

\* cleanup() at time t
cleanup(tg, t) ==
  [tg EXCEPT !.lastAlerts =
     [k \in AlertKeys |-> IF stale(tg.lastAlerts[k], t) THEN 0 ELSE tg.lastAlerts[k]]]

\* initialize(): getMe succeeds or fails.
NotifierInitialize(ok) ==
  /\ ~telegram.initialized
  /\ telegram' = [telegram EXCEPT !.initialized = TRUE, !.isEnabled = ok]
  /\ UNCHANGED <<tradingVars, policyVars, natrVars, clientVars, now, engineVars, returned>>

AlertOrders == {[coin |-> "BTC", side |-> side] : side \in {"bid", "ask"}}

\* sendAlert(order) up to its await.
SendAlert(order) ==
  /\ telegram.initialized
  /\ telegram.pending < MaxPending
  /\ telegram' = sendAlert(telegram, order, now)
  /\ returned' = [call |-> "sendAlert", key |-> alertKey(order), at |-> now,
                  sent |-> telegram'.pending # telegram.pending]
  /\ UNCHANGED <<tradingVars, policyVars, natrVars, clientVars, now, engineVars>>

\* sendMessage of an alert settles: it succeeds or fails without retry_after
\* (retryAfter = 0), or fails with 429 and retry_after seconds.
TelegramAnswer(retryAfter) ==
  /\ telegram.pending > 0
  /\ telegram' = [telegram EXCEPT
       !.pending = telegram.pending - 1,
       !.globalRateLimitUntil = IF retryAfter # 0 THEN now + retryAfter * 1000 ELSE @]
  /\ UNCHANGED <<tradingVars, policyVars, natrVars, clientVars, now, engineVars, returned>>

\* The hourly setInterval callback of OrderBookMonitor.start.
Cleanup ==
  /\ telegram.initialized
  /\ telegram' = cleanup(telegram, now)
  /\ UNCHANGED <<tradingVars, policyVars, natrVars, clientVars, now, engineVars, returned>>

\* d milliseconds pass.
Elapse(d) ==
  /\ telegram.elapses < MaxElapses
  /\ now' = now + d
  /\ telegram' = [telegram EXCEPT !.elapses = telegram.elapses + 1]
  /\ UNCHANGED <<tradingVars, policyVars, natrVars, clientVars, engineVars, returned>>

\* ------------------------------------------ OrderBookMonitor.processOrderBook
\* processOrderBook(snapshot) of a screener without trading module
\* (tradeEnabled = false): every LargeOrder found goes to telegram.sendAlert,
\* the bids first.
ProcessOrderBook(snapshot) ==
  LET found == DetectedLargeOrders(snapshot)
      alert(tg, side) ==
        IF \E order \in found : order.side = side
        THEN sendAlert(tg, [coin |-> snapshot.coin, side |-> side], now)
        ELSE tg
      processed == IF returned.call = "processOrderBook" THEN returned.processed ELSE 0
  IN
  /\ telegram.initialized
  /\ telegram.pending + 2 <= MaxPending
  /\ processed < MaxBooks
  /\ telegram' = alert(alert(telegram, "bid"), "ask")
  /\ returned' = [call |-> "processOrderBook", snapshot |-> snapshot, emitted |-> found,
                  processed |-> processed + 1]
  /\ UNCHANGED <<tradingVars, policyVars, natrVars, clientVars, now, engineVars>>

InitPeripherals ==
  /\ client = NewClient
  /\ now = 1
  /\ engine = NewEngine("PAPER", FALSE)
  /\ telegram = NewNotifier
  /\ pnlCheckInterval = "set"
  /\ candleFeed = NewCandleFeed

\* ==================================================================== spec
Init ==
  /\ openPositions = <<>>
  /\ positions = <<>>
  /\ orders = <<>>
  /\ pendingCoins = {}
  /\ lastPrices = [c \in Coins |-> 0]
  /\ natr = [k \in CoinKeys |-> IF k = "SOL" THEN 0 ELSE 10]
  /\ cfg \in [entryMode : EntryModes, tpLimit : BOOLEAN, policyEnabled : {FALSE},
              feed : {"core"}, perCoinMinOrderSizeUsd : {NoOverrides}, entryLimitOrders : {1}]
  /\ anchors = <<>>
  /\ entries = <<>>
  /\ snaps = <<>>
  /\ sups = <<>>
  /\ count = [largeOrders |-> 0, snapshots |-> 0, ticks |-> 0, faults |-> 0]
  /\ skipLog = {}
  /\ closeLog = <<>>
  /\ tradeLog = <<>>
  /\ rules = loadFromFile([valid |-> TRUE, rules |-> policyRules])
  /\ period = tradeNatrPeriod
  /\ calculators = <<>>
  /\ returned = [call |-> "none"]
  /\ InitPeripherals

Next ==
  \/ \E order \in LargeOrders : OnLargeOrder(order)
  \/ \E h \in DOMAIN entries : \E fillPrice \in {0, 80, 100, 120} :
        OpenPositionReturn(h, fillPrice)
  \/ \E h \in DOMAIN entries : \E ok \in BOOLEAN : EntryPlaceReturn(h, ok)
  \/ \E snapshot \in Snapshots : OnOrderBookSnapshot(snapshot)
  \/ \E h \in DOMAIN snaps : \E marked \in BOOLEAN : SnapCancelReturn(h, marked)
  \/ \E h \in DOMAIN snaps : \E ok \in BOOLEAN : SnapTpPlaceReturn(h, ok)
  \/ SupervisorTick
  \/ \E h \in DOMAIN sups : \E marked \in BOOLEAN : SupCancelReturn(h, marked)
  \/ \E h \in DOMAIN sups : \E ok \in BOOLEAN : SupCloseReturn(h, ok)

Spec == Init /\ [][Next]_vars

\* Runs with the policy engine switched on and an anchor memory loaded from
\* disk in which the BTC bid anchor already has five winning trades.
InitPolicy ==
  /\ openPositions = <<>>
  /\ positions = <<>>
  /\ orders = <<>>
  /\ pendingCoins = {}
  /\ lastPrices = [c \in Coins |-> 0]
  /\ natr = [k \in CoinKeys |-> IF k = "SOL" THEN 0 ELSE 10]
  /\ cfg \in [entryMode : EntryModes, tpLimit : BOOLEAN, policyEnabled : {TRUE},
              feed : {"core"}, perCoinMinOrderSizeUsd : {NoOverrides}, entryLimitOrders : {1}]
  /\ anchors = (<<"BTC", 100, "bid">> :>
                  [totalTrades |-> 6, winTrades |-> 5, lastTradeAgoMin |-> 10])
  /\ entries = <<>>
  /\ snaps = <<>>
  /\ sups = <<>>
  /\ count = [largeOrders |-> 0, snapshots |-> 0, ticks |-> 0, faults |-> 0]
  /\ skipLog = {}
  /\ closeLog = <<>>
  /\ tradeLog = <<>>
  /\ rules = loadFromFile([valid |-> TRUE, rules |-> policyRules])
  /\ period = tradeNatrPeriod
  /\ calculators = <<>>
  /\ returned = [call |-> "none"]
  /\ InitPeripherals

SpecPolicy == InitPolicy /\ [][Next]_vars

\* Runs on the wide book feed, with market or limit entries.
InitBooks ==
  /\ openPositions = <<>>
  /\ positions = <<>>
  /\ orders = <<>>
  /\ pendingCoins = {}
  /\ lastPrices = [c \in Coins |-> 0]
  /\ natr = [k \in CoinKeys |-> IF k = "SOL" THEN 0 ELSE 10]
  /\ cfg \in [entryMode : {"MARKET", "LIMIT"}, tpLimit : BOOLEAN,
              policyEnabled : {FALSE}, feed : {"wide"},
              perCoinMinOrderSizeUsd : {NoOverrides}, entryLimitOrders : {1}]
  /\ anchors = <<>>
  /\ entries = <<>>
  /\ snaps = <<>>
  /\ sups = <<>>
  /\ count = [largeOrders |-> 0, snapshots |-> 0, ticks |-> 0, faults |-> 0]
  /\ skipLog = {}
  /\ closeLog = <<>>
  /\ tradeLog = <<>>
  /\ rules = loadFromFile([valid |-> TRUE, rules |-> policyRules])
  /\ period = tradeNatrPeriod
  /\ calculators = <<>>
  /\ returned = [call |-> "none"]
  /\ InitPeripherals

SpecBooks == InitBooks /\ [][Next]_vars

\* ======================================================= PositionPolicy runs
\* The rules that policy files and addRule calls are made of.
RulePool ==
  { [name |-> "too_many_wins_on_anchor", priority |-> 5,
     when |-> ("anchorWinCountGte" :> 5),
     then |-> ("allowTrade" :> FALSE)],
    [name |-> "shock_60m_strong", priority |-> 9,
     when |-> ("shock60mNatrGte" :> 12),
     then |-> ("sizeMultiplier" :> 2) @@ ("tpNatrMultiplier" :> 3)],
    [name |-> "known_anchor", priority |-> 1,
     when |-> ("anchorTradeCountGte" :> 1),
     then |-> ("sizeMultiplier" :> 3) @@ ("slNatrMultiplier" :> 2)],
    [name |-> "calm_market", priority |-> 5,
     when |-> ("shock60mNatrLte" :> 12) @@ ("shock30mNatrLte" :> 12),
     then |-> ("allowTrade" :> TRUE) @@ ("tpNatrMultiplier" :> 2)] }

\* Policy files: no file, or up to two rules in any order.
RuleFiles ==
  {[valid |-> FALSE, rules |-> <<>>]}
    \cup {[valid |-> TRUE, rules |-> <<r>>] : r \in RulePool}
    \cup {[valid |-> TRUE, rules |-> x] : x \in {y \in RulePool \X RulePool : y[1] # y[2]}}

\* The context of a signal.
FeaturePool ==
  [shock30mNatr : {0}, shock60mNatr : {0, 12}, timeInAnchorZoneMin : {0},
   timeSinceEntryMin : {0}, anchorTradeCount : {0, 6}, anchorWinCount : {0, 5},
   anchorLastTradeAgoMin : {10}, tpHitsCount : {0}]

\* new PositionPolicy(): the constructor loads the rules of the policy file.
LoadRulesFromYaml(file) ==
  /\ rules' = loadFromFile(file)
  /\ returned' = [call |-> "loadFromFile"]
  /\ UNCHANGED <<tradingVars, natrVars, peripheralVars>>

\* PositionPolicy.addRule of a rule the policy does not hold yet.
AddRule(rule) ==
  /\ Len(rules) < MaxRules
  /\ rule \notin SeqToSet(rules)
  /\ rules' = addRule(rules, rule)
  /\ returned' = [call |-> "addRule"]
  /\ UNCHANGED <<tradingVars, natrVars, peripheralVars>>

\* PositionPolicy.evaluatePolicy on the context of a signal.
EvaluatePolicy(features) ==
  /\ returned' = [call |-> "evaluatePolicy", features |-> features,
                  decision |-> evaluatePolicy(features)]
  /\ UNCHANGED <<tradingVars, policyVars, natrVars, peripheralVars>>

\* The trading module as constructed, with no event delivered.
InitLedger ==
  /\ openPositions = <<>>
  /\ positions = <<>>
  /\ orders = <<>>
  /\ pendingCoins = {}
  /\ lastPrices = [c \in Coins |-> 0]
  /\ natr = [k \in CoinKeys |-> IF k = "SOL" THEN 0 ELSE 10]
  /\ anchors = <<>>
  /\ entries = <<>>
  /\ snaps = <<>>
  /\ sups = <<>>
  /\ count = [largeOrders |-> 0, snapshots |-> 0, ticks |-> 0, faults |-> 0]
  /\ skipLog = {}
  /\ closeLog = <<>>
  /\ tradeLog = <<>>

InitIdle ==
  /\ InitLedger
  /\ cfg = [entryMode |-> "MARKET", tpLimit |-> FALSE, policyEnabled |-> TRUE,
            feed |-> "core", perCoinMinOrderSizeUsd |-> NoOverrides, entryLimitOrders |-> 1]

InitRules ==
  /\ InitIdle
  /\ \E file \in RuleFiles : rules = loadFromFile(file)
  /\ period = tradeNatrPeriod
  /\ calculators = <<>>
  /\ returned = [call |-> "loadFromFile"]
  /\ InitPeripherals

NextRules ==
  \/ \E file \in RuleFiles : LoadRulesFromYaml(file)
  \/ \E rule \in RulePool : AddRule(rule)
  \/ \E features \in FeaturePool : EvaluatePolicy(features)

SpecRules == InitRules /\ [][NextRules]_vars

\* =============================================================== exit runs
\* Runs in which the price runs away from the anchor while the anchor level
\* stays in the book.
InitExits ==
  /\ InitLedger
  /\ cfg \in [entryMode : EntryModes, tpLimit : BOOLEAN, policyEnabled : {FALSE},
              feed : {"exits"}, perCoinMinOrderSizeUsd : {NoOverrides}, entryLimitOrders : {1}]
  /\ rules = loadFromFile([valid |-> TRUE, rules |-> policyRules])
  /\ period = tradeNatrPeriod
  /\ calculators = <<>>
  /\ returned = [call |-> "none"]
  /\ InitPeripherals

SpecExits == InitExits /\ [][Next]_vars

\* ============================================================ ladder runs
\* Runs with limit entries of three orders (at 100, 110 and 120 for a long
\* at the anchor 100) and limit take-profits.  No market order is sent in these
\* runs, and no position loses enough for the supervisor to close it.
InitLadder ==
  /\ InitLedger
  /\ cfg = [entryMode |-> "LIMIT", tpLimit |-> TRUE, policyEnabled |-> FALSE,
            feed |-> "exits", perCoinMinOrderSizeUsd |-> NoOverrides,
            entryLimitOrders |-> 3]
  /\ rules = loadFromFile([valid |-> TRUE, rules |-> policyRules])
  /\ period = tradeNatrPeriod
  /\ calculators = <<>>
  /\ returned = [call |-> "none"]
  /\ InitPeripherals

NextLadder ==
  \/ \E order \in LargeOrders : OnLargeOrder(order)
  \/ \E h \in DOMAIN entries : \E ok \in BOOLEAN : EntryPlaceReturn(h, ok)
  \/ \E snapshot \in Snapshots : OnOrderBookSnapshot(snapshot)
  \/ \E h \in DOMAIN snaps : \E marked \in BOOLEAN : SnapCancelReturn(h, marked)
  \/ \E h \in DOMAIN snaps : \E ok \in BOOLEAN : SnapTpPlaceReturn(h, ok)
  \/ SupervisorTick

SpecLadder == InitLadder /\ [][NextLadder]_vars

\* ========================================================= supervisor runs
\* Runs with market entries and market-on-touch take-profits, long enough for
\* two entries, a last price for each coin and a supervisor tick.  No limit
\* order exists in these runs, so no cancel and no placement is ever awaited.
InitRisk ==
  /\ InitLedger
  /\ cfg = [entryMode |-> "MARKET", tpLimit |-> FALSE, policyEnabled |-> FALSE,
            feed |-> "risk", perCoinMinOrderSizeUsd |-> NoOverrides, entryLimitOrders |-> 1]
  /\ rules = loadFromFile([valid |-> TRUE, rules |-> policyRules])
  /\ period = tradeNatrPeriod
  /\ calculators = <<>>
  /\ returned = [call |-> "none"]
  /\ InitPeripherals

NextRisk ==
  \/ \E order \in LargeOrders : OnLargeOrder(order)
  \/ \E h \in DOMAIN entries : \E fillPrice \in {0, 80, 100, 120} :
        OpenPositionReturn(h, fillPrice)
  \/ \E snapshot \in Snapshots : OnOrderBookSnapshot(snapshot)
  \/ SupervisorTick
  \/ \E h \in DOMAIN sups : \E ok \in BOOLEAN : SupCloseReturn(h, ok)

SpecRisk == InitRisk /\ [][NextRisk]_vars

\* ============================================================ shutdown runs
\* Runs with limit entries and limit take-profits in which the trading module
\* is shut down at any moment.
InitShutdown ==
  /\ InitLedger
  /\ cfg \in [entryMode : {"MARKET", "LIMIT"}, tpLimit : {TRUE}, policyEnabled : {FALSE},
             feed : {"core"}, perCoinMinOrderSizeUsd : {NoOverrides}, entryLimitOrders : {1}]
  /\ rules = loadFromFile([valid |-> TRUE, rules |-> policyRules])
  /\ period = tradeNatrPeriod
  /\ calculators = <<>>
  /\ returned = [call |-> "none"]
  /\ InitPeripherals

NextShutdown ==
  \/ Next
  \/ Shutdown

SpecShutdown == InitShutdown /\ [][NextShutdown]_vars

\* ==================================================== HyperliquidClient runs
InitClient ==
  /\ InitIdle
  /\ rules = loadFromFile([valid |-> TRUE, rules |-> policyRules])
  /\ period = tradeNatrPeriod
  /\ calculators = <<>>
  /\ returned = [call |-> "none"]
  /\ InitPeripherals

NextClient ==
  \/ Initialize
  \/ \E s \in 1..Len(client.sockets) : SocketOpen(s)
  \/ \E s \in 1..Len(client.sockets) : SocketClose(s)
  \/ \E t \in client.timers : ReconnectTimer(t)
  \/ \E coin \in StreamCoins : SubscribeToOrderBook(coin)
  \/ \E coin \in StreamCoins : SubscribeToTrades(coin)
  \/ \E type \in {"l2Book", "trades"} : \E coin \in StreamCoins :
        SocketMessage(type, coin)

SpecClient == InitClient /\ [][NextClient]_vars

\* The client with disconnect() called at some moment.
NextDisconnect == NextClient \/ Disconnect
SpecDisconnect == InitClient /\ [][NextDisconnect]_vars

\* ====================================================== ExecutionEngine runs
InitEngine ==
  /\ InitIdle
  /\ rules = loadFromFile([valid |-> TRUE, rules |-> policyRules])
  /\ period = tradeNatrPeriod
  /\ calculators = <<>>
  /\ returned = [call |-> "none"]
  /\ client = NewClient
  /\ now = 1
  /\ \E venue \in {"PAPER", "BINANCE"} : \E live \in BOOLEAN :
        /\ venue = "PAPER" => ~live
        /\ engine = NewEngine(venue, live)
  /\ telegram = NewNotifier
  /\ pnlCheckInterval = "set"
  /\ candleFeed = NewCandleFeed

NextEngine ==
  \/ \E signal \in Signals : \E response \in OrderResponses :
        OpenPosition(signal, response)
  \/ \E price \in {0, 100} : \E purpose \in {"entry", "tp"} :
      \E contracts \in {0, 5, 10} : \E response \in OrderResponses :
        PlaceLimitOrder(price, 100, purpose, contracts, response)
  \/ \E n \in 1..Len(engine.orders) :
      \E response \in {"ok", "-2011", "-2013", "-1021"} :
        CancelLimitOrder(n, response)
  \/ \E n \in 1..Len(engine.positions) : \E response \in OrderResponses :
      \E positionRisk \in ReadResponses : \E cleanupAnswer \in OrderResponses :
        ClosePosition(n, response, positionRisk, cleanupAnswer)
  \/ \E n \in 1..Len(engine.positions) : SetupTpTargets(n)
  \/ \E n \in 1..Len(engine.positions) : \E idx \in 1..Len(tradeTpPercents) :
      \E response \in OrderResponses : \E positionRisk \in ReadResponses :
      \E cleanupAnswer \in OrderResponses :
        TpHit(n, idx, response, positionRisk, cleanupAnswer)
  \/ \E n \in 1..Len(engine.orders) : OrderMarkedFilled(n)
  \/ \E n \in 1..Len(engine.orders) : ExchangeFill(n)
  \/ Tick

SpecEngine == InitEngine /\ [][NextEngine]_vars

\* ===================================================== OrderBookMonitor runs
\* Books of the screener: the books above, a book with a large order on each
\* side, levels worth 500 and 2000, and a crossed book.
DetectorBooks ==
  Books \cup
  { [bids |-> <<Lvl(100, 10), Lvl(95, 20)>>, asks |-> <<Lvl(110, 10), Lvl(130, 10)>>],
    [bids |-> <<Lvl(100, 5)>>,  asks |-> <<Lvl(110, 20), Lvl(130, 10)>>],
    [bids |-> <<Lvl(110, 10), Lvl(100, 10)>>, asks |-> <<Lvl(100, 10)>>] }
Overrides ==
  {NoOverrides, [NoOverrides EXCEPT !["BTC"] = 500], [NoOverrides EXCEPT !["ETH"] = 2000]}

InitDetector ==
  /\ InitLedger
  /\ cfg \in [entryMode : {"MARKET"}, tpLimit : {FALSE}, policyEnabled : {FALSE},
              feed : {"wide"}, perCoinMinOrderSizeUsd : Overrides, entryLimitOrders : {1}]
  /\ rules = loadFromFile([valid |-> TRUE, rules |-> policyRules])
  /\ period = tradeNatrPeriod
  /\ calculators = <<>>
  /\ returned = [call |-> "none"]
  /\ InitPeripherals

NextDetector ==
  \/ \E ok \in BOOLEAN : NotifierInitialize(ok)
  \/ \E coin \in Coins : \E book \in DetectorBooks :
        ProcessOrderBook([coin |-> coin, book |-> book])
  \/ \E retryAfter \in {0, 30} : TelegramAnswer(retryAfter)
  \/ Tick

SpecDetector == InitDetector /\ [][NextDetector]_vars

\* ===================================================== TelegramNotifier runs
InitNotifier ==
  /\ InitIdle
  /\ rules = loadFromFile([valid |-> TRUE, rules |-> policyRules])
  /\ period = tradeNatrPeriod
  /\ calculators = <<>>
  /\ returned = [call |-> "none"]
  /\ client = NewClient
  /\ now = 1
  /\ engine = NewEngine("PAPER", FALSE)
  /\ \E cooldown \in {alertCooldownMs, MaxCooldownMs} :
        telegram = [NewNotifier EXCEPT !.alertCooldownMs = cooldown]
  /\ pnlCheckInterval = "set"
  /\ candleFeed = NewCandleFeed

NextNotifier ==
  \/ \E ok \in BOOLEAN : NotifierInitialize(ok)
  \/ \E order \in AlertOrders : SendAlert(order)
  \/ \E retryAfter \in {0, 30} : TelegramAnswer(retryAfter)
  \/ Cleanup
  \/ \E d \in {30000, cleanupAgeMs} : Elapse(d)

SpecNotifier == InitNotifier /\ [][NextNotifier]_vars

\* ========================================================= AnchorMemory runs
InitMemory ==
  /\ InitIdle
  /\ rules = loadFromFile([valid |-> TRUE, rules |-> policyRules])
  /\ period = tradeNatrPeriod
  /\ calculators = <<>>
  /\ returned = [call |-> "none"]
  /\ InitPeripherals

NextMemory ==
  \/ \E anchorId \in AnchorIds : \E pnlUsd \in {-5, 0, 5} : RecordTrade(anchorId, pnlUsd)
  \/ \E anchorId \in AnchorIds : ClearAnchor(anchorId)
  \/ ClearAll
  \/ Tick

SpecMemory == InitMemory /\ [][NextMemory]_vars

\* ========================================================== NatrService runs
\* A number of the calculator: a quotient num/den of integers (den > 0), or a
\* value that is not finite (a division by a period of zero).
Num(num, den) == [finite |-> TRUE, num |-> num, den |-> den]
NotFinite == [finite |-> FALSE, num |-> 0, den |-> 1]
null == [null |-> TRUE]
Value(x) == [null |-> FALSE, finite |-> x.finite, num |-> x.num, den |-> x.den]

Abs(x) == IF x < 0 THEN -x ELSE x

\* new NatrCalculator(period).  candles is a history field: update calls so far.
NewCalculator ==
  [trHistory |-> <<>>, hasLastClose |-> FALSE, lastClose |-> 0, hasAtr |-> FALSE,
   atr |-> NotFinite, candles |-> 0]

\* (atr / close) * 100 and the test isFinite(natr) && natr > 0 ? natr : null,
\* for a close that is not zero.
NatrOf(atr, close) ==
  LET quotient == IF atr.finite
                  THEN IF close > 0 THEN Num(atr.num * 100, atr.den * close)
                       ELSE Num(-(atr.num * 100), atr.den * (-close))
                  ELSE NotFinite
  IN IF quotient.finite /\ quotient.num > 0 THEN Value(quotient) ELSE null

\* variant: the start ATR is taken one candle early
warmingUpShort(trHistory, n) == Len(trHistory) < n - 1

\* this.trHistory.length < this.period
warmingUp(trHistory, n) == Len(trHistory) < n

\* NatrCalculator.update: the calculator after the candle and the value returned.
NatrCalculatorUpdate(calc, candle, n) ==
  LET hl == candle.high - candle.low
      tr == IF ~calc.hasLastClose THEN hl
            ELSE Max(hl, Max(Abs(candle.high - calc.lastClose),
                             Abs(candle.low - calc.lastClose)))
      closed == [calc EXCEPT !.hasLastClose = TRUE, !.lastClose = candle.close,
                             !.candles = calc.candles + 1]
      history == Append(calc.trHistory, tr)
      started == IF n = 0 THEN NotFinite ELSE Num(SumSeq(history), n)
      smoothed == IF n = 0 \/ ~calc.atr.finite THEN NotFinite
                  ELSE Num(calc.atr.num * (n - 1) + tr * calc.atr.den, calc.atr.den * n)
      next == IF ~calc.hasAtr
              THEN IF warmingUp(history, n)
                   THEN [closed EXCEPT !.trHistory = history]
                   ELSE [closed EXCEPT !.trHistory = history, !.hasAtr = TRUE,
                                       !.atr = started]
              ELSE [closed EXCEPT !.atr = smoothed]
  IN [calc |-> next,
      value |-> IF ~next.hasAtr THEN null
                ELSE IF ~next.atr.finite \/ next.atr.num <= 0 \/ candle.close <= 0
                THEN null
                ELSE NatrOf(next.atr, candle.close)]

\* NatrCalculator.getCurrentNatr
getCurrentNatr(calc) ==
  IF ~calc.hasAtr \/ ~calc.hasLastClose \/ calc.lastClose <= 0 THEN null
  ELSE NatrOf(calc.atr, calc.lastClose)

\* Candles: a plain one, a flat one, one that closes at zero, and one with high
\* below low that closes below zero.
Candles ==
  { [high |-> 12, low |-> 8, close |-> 10],
    [high |-> 10, low |-> 10, close |-> 10],
    [high |-> 6, low |-> 4, close |-> 0],
    [high |-> 8, low |-> 12, close |-> -5] }
NatrCoins == {"BTC", "btc"}
Periods == 0..3

\* NatrService.update
Update(coin, candle) ==
  LET key == toUpperCase(coin)
      calc == IF key \in DOMAIN calculators THEN calculators[key] ELSE NewCalculator
      done == NatrCalculatorUpdate(calc, candle, period)
  IN
  /\ calc.candles < MaxCandles
  /\ calculators' = (key :> done.calc) @@ calculators
  /\ returned' = [call |-> "update", coin |-> coin, value |-> done.value]
  /\ UNCHANGED <<tradingVars, policyVars, period, peripheralVars>>

\* NatrService.getNatr
GetNatr(coin) ==
  LET key == toUpperCase(coin)
  IN
  /\ returned' = [call |-> "getNatr", coin |-> coin,
                  value |-> IF key \in DOMAIN calculators
                            THEN getCurrentNatr(calculators[key]) ELSE null]
  /\ UNCHANGED <<tradingVars, policyVars, natrVars, peripheralVars>>

InitNatr ==
  /\ InitIdle
  /\ rules = loadFromFile([valid |-> TRUE, rules |-> policyRules])
  /\ period \in Periods
  /\ calculators = <<>>
  /\ returned = [call |-> "none"]
  /\ InitPeripherals

NextNatr ==
  \/ \E coin \in NatrCoins : \E candle \in Candles : Update(coin, candle)
  \/ \E coin \in NatrCoins : GetNatr(coin)

SpecNatr == InitNatr /\ [][NextNatr]_vars

\* --------------------------------------------------------- BinanceCandleFeed
\* BinanceCandleFeed.trackCoin
TrackCoin(coin) ==
  /\ toUpperCase(coin) \notin candleFeed.trackedCoins
  /\ candleFeed' = [candleFeed EXCEPT !.trackedCoins = @ \cup {toUpperCase(coin)}]
  /\ UNCHANGED <<openPositions, positions, orders, pendingCoins, lastPrices, natr, cfg,
                 anchors, entries, snaps, sups, count, skipLog, closeLog, tradeLog,
                 rules, period, calculators, returned, client, now, engine, telegram,
                 pnlCheckInterval>>

\* The exchange: five minutes are over and the next 5m candle opens.
CandleCloses ==
  /\ candleFeed.openTime < MaxOpenTime
  /\ candleFeed' = [candleFeed EXCEPT !.openTime = @ + 1]
  /\ UNCHANGED <<openPositions, positions, orders, pendingCoins, lastPrices, natr, cfg,
                 anchors, entries, snaps, sups, count, skipLog, closeLog, tradeLog,
                 rules, period, calculators, returned, client, now, engine, telegram,
                 pnlCheckInterval>>

\* One turn of the loop of BinanceCandleFeed.tick, which runs every 20 seconds:
\* fetchLastCandleForCoin(coin) for a tracked coin.  The request asks for the last
\* 5m candle (limit=1); answer is what came back: "failed" (not res.ok, the error
\* is caught by tick), "empty" (no rows) or "ok" with the candle that is open now,
\* whose high, low and close are what the exchange reports at this moment.
FetchLastCandleForCoin(coin, answer, shape) ==
  LET key == toUpperCase(coin)
      calc == IF key \in DOMAIN calculators THEN calculators[key] ELSE NewCalculator
      candle == [timestamp |-> candleFeed.openTime, high |-> shape.high,
                 low |-> shape.low, close |-> shape.close]
      done == NatrCalculatorUpdate(calc, candle, period)
      before == IF key \in DOMAIN candleFeed.seen THEN candleFeed.seen[key] ELSE {}
  IN
  /\ coin \in candleFeed.trackedCoins
  /\ calc.candles < MaxCandles
  /\ IF answer = "ok"
     THEN /\ calculators' = (key :> done.calc) @@ calculators
          /\ candleFeed' = [candleFeed EXCEPT
                              !.seen = (key :> (before \cup {candle.timestamp})) @@ @]
          /\ returned' = [call |-> "fetchLastCandleForCoin", coin |-> coin,
                          answer |-> answer, timestamp |-> candle.timestamp,
                          repeated |-> candle.timestamp \in before,
                          value |-> done.value]
     ELSE /\ returned' = [call |-> "fetchLastCandleForCoin", coin |-> coin,
                          answer |-> answer]
          /\ UNCHANGED <<calculators, candleFeed>>
  /\ UNCHANGED <<openPositions, positions, orders, pendingCoins, lastPrices, natr, cfg,
                 anchors, entries, snaps, sups, count, skipLog, closeLog, tradeLog,
                 rules, period, client, now, engine, telegram, pnlCheckInterval>>

FeedPeriods == {2, 3}

InitFeed ==
  /\ InitIdle
  /\ rules = loadFromFile([valid |-> TRUE, rules |-> policyRules])
  /\ period \in FeedPeriods
  /\ calculators = <<>>
  /\ returned = [call |-> "none"]
  /\ InitPeripherals

NextFeed ==
  \/ \E coin \in NatrCoins : TrackCoin(coin)
  \/ CandleCloses
  \/ \E coin \in candleFeed.trackedCoins : \E answer \in {"ok", "failed", "empty"} :
       \E shape \in Candles : FetchLastCandleForCoin(coin, answer, shape)
  \/ \E coin \in NatrCoins : GetNatr(coin)

SpecFeed == InitFeed /\ [][NextFeed]_vars

\* ================================================================== claims
\* Two coin strings name the same coin when they differ only in case.
SameCoin(a, b) == a = b \/ {a, b} = {"BTC", "btc"}

\* C1: through onLargeOrder no two entries for the same coin (compared without
\* regard to case) are in flight at once, so no two engine.openPosition calls
\* for one coin are outstanding: a LargeOrder that arrives while an entry for
\* its coin has not returned is skipped.
C1_OneEntryInFlightPerCoin ==
  \A h1, h2 \in DOMAIN entries :
    h1 # h2 => ~SameCoin(entries[h1].order.coin, entries[h2].order.coin)

\* An openPosition call is outstanding and a LargeOrder was skipped as pending.
C1_Witness ==
  /\ \E h \in DOMAIN entries : entries[h].pc = "openWait"
  /\ "pending" \in skipLog

\* C2: the ledger never holds two positions for the same coin.
C2_OnePositionPerCoin ==
  \A i, j \in 1..Len(openPositions) :
    i # j => ~SameCoin(positions[openPositions[i]].coin, positions[openPositions[j]].coin)

\* A coin was closed and entered again: one closed and one open position of it.
C2_Witness ==
  \E p, q \in DOMAIN positions :
    /\ positions[p].state = "closed"
    /\ positions[q].state = "open"
    /\ SameCoin(positions[p].coin, positions[q].coin)

\* C3: the ledger never holds more than tradeMaxOpenPositions positions, also
\* when entries for two coins pass the risk check before either openPosition
\* call returns.
C3_LedgerWithinMaxOpenPositions == Len(openPositions) <= tradeMaxOpenPositions

\* C4: a coin is in pendingCoins exactly while an entry for it is in flight;
\* whenever onLargeOrder has finished, its coin is no longer there.
C4_PendingIffInFlight ==
  pendingCoins = {toUpperCase(entries[h].order.coin) : h \in DOMAIN entries}

\* An entry started, engine.openPosition answered null, and the coin is free.
C4_Witness ==
  /\ count.largeOrders = 1
  /\ count.faults = 1
  /\ skipLog = {}
  /\ DOMAIN entries = {}
  /\ Len(positions) = 0
  /\ pendingCoins = {}

\* The policy decision calculatePositionSizeWithPolicy reaches for a LargeOrder.
PolicyDecision(order) ==
  calculatePositionSizeWithPolicy(order.coin,
    [coin |-> order.coin, anchorPrice |-> order.price, side |-> order.side]).decision

\* C5: with the policy enabled, a LargeOrder whose evaluation yields
\* allowTrade = false starts no entry: no engine call, no position, and its
\* coin does not enter pendingCoins.
C5_VetoedOrderStartsNoEntry ==
  cfg.policyEnabled =>
    /\ \A h \in DOMAIN entries : PolicyDecision(entries[h].order).allowTrade
    /\ \A p \in DOMAIN positions :
         PolicyDecision([coin |-> positions[p].coin, price |-> positions[p].anchorPrice,
                         side |-> positions[p].anchorSide]).allowTrade

\* closePosition calls and trade-log entries of supervisor tick t for position p.
EmergencyCalls(p, t) ==
  {m \in 1..Len(closeLog) :
     /\ closeLog[m].pos = p /\ closeLog[m].tick = t
     /\ closeLog[m].reason = "emergency_stop_loss_pnl"}
EmergencyLogs(p, t) ==
  {m \in 1..Len(tradeLog) :
     /\ tradeLog[m].pos = p /\ tradeLog[m].tick = t
     /\ tradeLog[m].closeReason = "emergency_stop_loss_pnl"}

\* C6: when a supervisor tick finds pnlUsd < -tradeMaxRiskPerTrade it first asks
\* the engine to cancel every entry and TP order of the position that is
\* neither filled nor cancelled, then calls closePosition with reason
\* emergency_stop_loss_pnl=..., then logs the trade and removes the position:
\* the tick never calls closePosition while one of its cancels is still to be
\* issued, it logs the trade only after its closePosition call, and once it has
\* logged the position is out of the ledger.
C6_CancelBeforeEmergencyClose ==
  /\ \A h \in DOMAIN sups :
       /\ sups[h].pc = "cancelWait" =>
            /\ EmergencyCalls(sups[h].pos, h) = {}
            /\ \A k \in 1..sups[h].k :
                 LET o == orders[sups[h].allOrders[k]]
                 IN o.cancelRequested \/ o.filled \/ o.cancelled
       /\ sups[h].pc = "closeWait" =>
            /\ EmergencyCalls(sups[h].pos, h) # {}
            /\ EmergencyLogs(sups[h].pos, h) = {}
            /\ \A k \in 1..Len(sups[h].allOrders) :
                 LET o == orders[sups[h].allOrders[k]]
                 IN o.cancelRequested \/ o.filled \/ o.cancelled
  /\ \A m \in 1..Len(tradeLog) :
       tradeLog[m].closeReason = "emergency_stop_loss_pnl" =>
         /\ EmergencyCalls(tradeLog[m].pos, tradeLog[m].tick) # {}
         /\ \A i \in 1..Len(openPositions) : openPositions[i] # tradeLog[m].pos

\* The supervisor closed a position after asking for the cancel of an order.
C6_Witness ==
  \E p \in DOMAIN positions : \E t \in 1..MaxTicks :
    /\ EmergencyLogs(p, t) # {}
    /\ \E o \in DOMAIN orders : orders[o].pos = p /\ orders[o].cancelRequested

\* C7: when a position has left the ledger, for whatever reason, none of its
\* entry or TP limit orders is still active.
C7_NoActiveOrderAfterRemoval ==
  \A o \in DOMAIN orders :
    positions[orders[o].pos].state = "closed" => ~IsActive(orders[o])

\* C8: no limit order is ever both filled and cancelled, also when a
\* supervisor cancel and a snapshot fill of the same order interleave.
C8_FilledCancelledExclusive ==
  \A o \in DOMAIN orders : ~(orders[o].filled /\ orders[o].cancelled)

\* C9: the handlers that mutate a position are serialized: while a snapshot's
\* processing of a position is not complete, no other snapshot of the coin and
\* no supervisor tick works on that position.
C9_OneHandlerPerPosition ==
  /\ \A h1, h2 \in DOMAIN snaps :
       h1 # h2 => SeqToSet(snaps[h1].relevant) \cap SeqToSet(snaps[h2].relevant) = {}
  /\ \A h \in DOMAIN snaps : \A g \in DOMAIN sups :
       sups[g].pos \notin SeqToSet(snaps[h].relevant)

\* C10: from registration until removal a position's sizeUsd never increases,
\* so it never exceeds the size at registration, and it goes down only in a
\* step in which one of its TP orders is filled or one of its TP targets is hit.
C10_SizeOnlyShrinksByTp ==
  [][\A p \in DOMAIN positions :
       (positions[p].state = "open" /\ positions'[p].state = "open") =>
         /\ positions'[p].sizeUsd <= positions[p].sizeUsd
         /\ positions'[p].sizeUsd <= positions'[p].registeredSizeUsd
         /\ positions'[p].sizeUsd < positions[p].sizeUsd =>
              \/ \E n \in 1..Len(positions'[p].tpLimitOrders) :
                   LET o == positions'[p].tpLimitOrders[n]
                   IN /\ o \in DOMAIN orders => ~orders[o].filled
                      /\ orders'[o].filled
              \/ \E n \in 1..Len(positions[p].tpTargets) :
                   ~positions[p].tpTargets[n].hit /\ positions'[p].tpTargets[n].hit]_vars

\* An open position whose size went down through a TP fill.
C10_Witness ==
  \E p \in DOMAIN positions :
    /\ positions[p].state = "open"
    /\ positions[p].sizeUsd < positions[p].registeredSizeUsd
    /\ \E n \in 1..Len(positions[p].tpLimitOrders) :
         orders[positions[p].tpLimitOrders[n]].filled

\* The window of prices a book side shows, and a position's anchor against it.
AnchorSide(position, book) ==
  IF position.anchorSide = "bid" THEN book.bids ELSE book.asks
SidePrices(side) == {side[i].price : i \in 1..Len(side)}
BelowWindow(position, book) ==
  \A x \in SidePrices(AnchorSide(position, book)) : position.anchorPrice < x
AboveWindow(position, book) ==
  \A x \in SidePrices(AnchorSide(position, book)) : position.anchorPrice > x
\* The ledger positions a snapshot of this coin is about.
Relevant(snapshot) ==
  {p \in SeqToSet(openPositions) : positions[p].coin = snapshot.coin}
\* A snapshot in which the bid side or the ask side is empty.
SideEmpty(snapshot) == Len(snapshot.book.bids) = 0 \/ Len(snapshot.book.asks) = 0
\* The snapshots whose delivery this step is.
SnapshotsHandled ==
  {x \in Snapshots : /\ count'.snapshots = count.snapshots + 1
                     /\ MidPrice(x.book) \in {0, lastPrices'[x.coin]}
                     /\ OnOrderBookSnapshot(x)}
\* The closePosition calls and trade-log entries added by the step.
NewCloseCalls == {closeLog'[m] : m \in (Len(closeLog) + 1)..Len(closeLog')}
NewTradeLogs == {tradeLog'[m] : m \in (Len(tradeLog) + 1)..Len(tradeLog')}

\* What C11 says of the step that handles snapshot for position p: the close
\* with anchor_lost_out_of_view_against happens exactly when the anchor is a bid
\* above the window or an ask below it, and an anchor out of the window in the
\* other direction leaves everything as it was.
OutOfViewRule(snapshot, p) ==
  LET position == positions[p]
      below == BelowWindow(position, snapshot.book)
      above == AboveWindow(position, snapshot.book)
      against == \/ position.anchorSide = "bid" /\ above
                 \/ position.anchorSide = "ask" /\ below
      lost == \E c \in NewCloseCalls :
                c.pos = p /\ c.reason = "anchor_lost_out_of_view_against"
  IN /\ lost <=> against
     /\ against =>
          /\ p \notin SeqToSet(openPositions')
          /\ \E t \in NewTradeLogs :
               t.pos = p /\ t.closeReason = "anchor_lost_out_of_view_against"
     /\ ((below \/ above) /\ ~against) =>
          /\ openPositions' = openPositions
          /\ positions' = positions
          /\ orders' = orders
          /\ closeLog' = closeLog
          /\ tradeLog' = tradeLog
          /\ snaps' = snaps

\* C11 as stated: every snapshot whose anchor side has levels, none of them
\* reaching the anchor price, closes the position with
\* anchor_lost_out_of_view_against exactly when the anchor is a bid above the
\* window or an ask below it, and otherwise changes nothing; an anchor at the
\* edge of the window is in range and is never closed with that reason.
C11_OutOfViewClosesOnlyAgainst ==
  [][\A snapshot \in SnapshotsHandled : \A p \in Relevant(snapshot) :
       Len(AnchorSide(positions[p], snapshot.book)) > 0 =>
         OutOfViewRule(snapshot, p)]_vars

\* C11 amended: the same, for snapshots in which both book sides have levels.
C11_OutOfViewClosesOnlyAgainstBothSides ==
  [][\A snapshot \in SnapshotsHandled : \A p \in Relevant(snapshot) :
       ~SideEmpty(snapshot) => OutOfViewRule(snapshot, p)]_vars

\* A position was closed because its anchor left the window against it.
C11_Witness ==
  \E m \in 1..Len(tradeLog) : \E k \in 1..Len(closeLog) :
    /\ tradeLog[m].closeReason = "anchor_lost_out_of_view_against"
    /\ closeLog[k].pos = tradeLog[m].pos
    /\ closeLog[k].reason = "anchor_lost_out_of_view_against"
    /\ positions[tradeLog[m].pos].state = "closed"

\* C12: when a snapshot finds the anchor price inside the window with no level
\* at it, every active entry limit order of the position is cancelled before
\* closePosition is called with anchor_removed_from_book_in_view, and the
\* position leaves the ledger in that snapshot: once that call is made the
\* position is out of the ledger and none of its entry orders is active.
C12_RemovedAnchorCancelsThenCloses ==
  \A m \in 1..Len(closeLog) :
    closeLog[m].reason = "anchor_removed_from_book_in_view" =>
      LET position == positions[closeLog[m].pos]
      IN /\ closeLog[m].pos \notin SeqToSet(openPositions)
         /\ \A n \in 1..Len(position.entryLimitOrders) :
              ~IsActive(orders[position.entryLimitOrders[n]])

\* The value resting at the anchor price on the anchor's side of a book.
AnchorValue(position, book) ==
  LET side == AnchorSide(position, book)
      at == {i \in 1..Len(side) : side[i].price = position.anchorPrice}
      RECURSIVE Total(_)
      Total(S) == IF S = {} THEN 0
                  ELSE LET i == CHOOSE x \in S : TRUE
                       IN side[i].price * side[i].size + Total(S \ {i})
  IN [present |-> at # {}, valueUsd |-> Total(at)]
\* The books whose processing for position p ends in this step: the book of a
\* suspended handler that returns, or of a snapshot handled without suspension.
BooksDone(p, handled) ==
  {snaps[h].book : h \in {g \in DOMAIN snaps \ DOMAIN snaps' :
                            p \in SeqToSet(snaps[g].relevant)}}
  \cup {x.book : x \in {y \in handled : /\ p \in Relevant(y)
                                        /\ (count.snapshots + 1) \notin DOMAIN snaps'}}
AnchorReasons ==
  {"anchor_lost_out_of_view_against", "anchor_removed_from_book_in_view",
   "anchor_value_below_threshold"}
TpReasons == {"tp_all_hit", "tp_limit_all_hit"}

C14_EmptySideChangesNothing ==
  [][\A snapshot \in SnapshotsHandled :
       SideEmpty(snapshot) =>
         /\ DetectedLargeOrders(snapshot) = {}
         /\ UNCHANGED <<openPositions, positions, orders, pendingCoins, entries, snaps,
                        closeLog, tradeLog>>]_vars

\* The only snapshot so far had an empty side and came for the coin of the
\* position in the ledger, which is still there.
C14_Witness ==
  /\ "book_side_empty" \in skipLog
  /\ count.snapshots = 1
  /\ Len(openPositions) = 1
  /\ closeLog = <<>>

\* The partial closes asked of the engine for position p, in call order.
TpHitCalls(log, p) == SelectSeq(log, LAMBDA c : c.pos = p /\ c.reason = "tp_hit")

\* The TP targets of p that a step marks hit, in loop order, and the TP-limit
\* orders of p that it marks filled.
NewlyHit(p) ==
  SelectSeq([n \in 1..Len(positions[p].tpTargets) |-> n],
            LAMBDA n : ~positions[p].tpTargets[n].hit /\ positions'[p].tpTargets[n].hit)

NewlyFilledTp(p) ==
  SelectSeq(positions'[p].tpLimitOrders,
            LAMBDA o : (o \in DOMAIN orders => ~orders[o].filled) /\ orders'[o].filled)

\* C15: a TP target that is hit stays hit and keeps its price and size; a step
\* asks the engine for one partial close (tp_hit) of target.sizeUsd per target
\* it newly marks hit, in loop order, and no other; it lowers the position's
\* sizeUsd by exactly the sizes of those targets (and of the TP-limit orders it
\* fills); so the partial closes of a position are as many as its hit targets.
C15_TpTargetFiresOnce ==
  [][\A p \in DOMAIN positions :
       LET targets == positions[p].tpTargets
           fired == NewlyHit(p)
           before == TpHitCalls(closeLog, p)
           after == TpHitCalls(closeLog', p)
       IN Len(targets) > 0 =>
            /\ Len(positions'[p].tpTargets) = Len(targets)
            /\ \A n \in 1..Len(targets) :
                 /\ targets[n].hit => positions'[p].tpTargets[n].hit
                 /\ positions'[p].tpTargets[n].sizeUsd = targets[n].sizeUsd
                 /\ positions'[p].tpTargets[n].price = targets[n].price
            /\ after = before \o [m \in 1..Len(fired) |->
                                    CloseCall(p, "tp_hit", targets[fired[m]].sizeUsd)]
            /\ Len(after) = Cardinality({n \in 1..Len(targets) :
                                           positions'[p].tpTargets[n].hit})
            /\ Len(fired) > 0 =>
                 positions'[p].sizeUsd =
                   positions[p].sizeUsd
                     - SumSeq([m \in 1..Len(fired) |-> targets[fired[m]].sizeUsd])
                     - SumSeq([m \in 1..Len(NewlyFilledTp(p)) |->
                                 orders'[NewlyFilledTp(p)[m]].sizeUsd])]_vars

\* A target was hit by the first snapshot, a second snapshot was handled on a
\* mid price that still reaches it, and the engine got one partial close.
C15_Witness ==
  \E p \in DOMAIN positions :
    /\ positions[p].state = "open"
    /\ count.snapshots = 2
    /\ snaps = <<>>
    /\ Len(TpHitCalls(closeLog, p)) = 1
    /\ \E n \in 1..Len(positions[p].tpTargets) :
         LET t == positions[p].tpTargets[n]
         IN /\ t.hit
            /\ lastPrices[positions[p].coin] # 0
            /\ TargetFiresAgain(positions[p], t, lastPrices[positions[p].coin])
            /\ positions[p].sizeUsd = positions[p].registeredSizeUsd - t.sizeUsd

\* C16: a step that brings a position's sizeUsd to zero or below asks the
\* engine to close it with tp_all_hit or tp_limit_all_hit, logs the trade with
\* that reason and ends with the position out of the ledger; so no position in
\* the ledger has sizeUsd <= 0 once a snapshot has been processed.
C16_ExhaustedPositionClosedAtOnce ==
  [][\A p \in DOMAIN positions :
       /\ (positions[p].sizeUsd > 0 /\ positions'[p].sizeUsd <= 0) =>
            /\ \E c \in NewCloseCalls :
                 c.pos = p /\ c.reason \in TpReasons /\ c.tick = 0
            /\ \E e \in NewTradeLogs :
                 e.pos = p /\ e.closeReason \in TpReasons /\ e.tick = 0
            /\ p \notin SeqToSet(openPositions')
            /\ positions'[p].state = "closed"
       /\ p \in SeqToSet(openPositions') => positions'[p].sizeUsd > 0]_vars

\* A position whose TP processing took its size to zero: closed with a TP reason
\* and out of the ledger.
C16_Witness ==
  \E m \in 1..Len(tradeLog) :
    LET p == tradeLog[m].pos
    IN /\ tradeLog[m].closeReason \in TpReasons
       /\ positions[p].sizeUsd <= 0
       /\ positions[p].registeredSizeUsd > 0
       /\ positions[p].state = "closed"
       /\ p \notin SeqToSet(openPositions)

\* The supervisor ticks whose engine.closePosition call throws in this step.
SupCloseThrows ==
  {h \in DOMAIN sups : sups[h].pc = "closeWait" /\ SupCloseReturn(h, FALSE)}

\* C17: when closePosition throws for one position during a supervisor tick,
\* the tick goes on to the positions that follow it in the ledger: after the
\* throw it is either waiting on a later position or has no position left to
\* check.
C17_ThrowKeepsTickChecking ==
  [][\A h \in SupCloseThrows :
       \/ h \in DOMAIN sups' /\ sups'[h].idx > sups[h].idx
       \/ sups[h].idx >= Len(openPositions)]_vars

\* The rules of the policy that match the features of the last evaluatePolicy
\* call, in the order of the rule list, and the product of one action over them.
MatchedRules(features) == SelectSeq(rules, LAMBDA r : checkConditions(r, features))

RECURSIVE ProductOver(_, _)
ProductOver(rs, key) ==
  IF rs = <<>> THEN 1
  ELSE Multiplied(ProductOver(SubSeq(rs, 1, Len(rs) - 1), key), rs[Len(rs)], key)

\* C18: evaluatePolicy checks the rules in ascending priority, whatever
\* loadFromFile and addRule calls built the rule list; a decision that allows
\* the trade has checked every rule, and its sizeMultiplier, tpNatrMultiplier
\* and slNatrMultiplier are the products of those actions over the matching
\* rules.
C18_AscendingPriorityAndProducts ==
  /\ \A i \in 1..Len(rules) : \A j \in i..Len(rules) :
       rules[i].priority <= rules[j].priority
  /\ returned.call = "evaluatePolicy" =>
       LET d == returned.decision
           matched == MatchedRules(returned.features)
       IN /\ \A i \in 1..Len(d.visited) : \A j \in i..Len(d.visited) :
               d.visited[i].priority <= d.visited[j].priority
          /\ d.visited = SubSeq(rules, 1, Len(d.visited))
          /\ d.allowTrade =>
               /\ d.visited = rules
               /\ d.sizeMultiplier = ProductOver(matched, "sizeMultiplier")
               /\ d.tpNatrMultiplier = ProductOver(matched, "tpNatrMultiplier")
               /\ d.slNatrMultiplier = ProductOver(matched, "slNatrMultiplier")

\* A policy of three rules allowed a trade on which all three match: two of
\* them scale the size, two the TP levels and one the SL levels.
C18_Witness ==
  /\ returned.call = "evaluatePolicy"
  /\ returned.decision.allowTrade
  /\ Len(rules) = MaxRules
  /\ returned.decision.sizeMultiplier = 6
  /\ returned.decision.tpNatrMultiplier = 6
  /\ returned.decision.slNatrMultiplier = 2

\* C19: a decision that forbids the trade stopped at the matching rule that set
\* allowTrade to false, checked no rule after it, and has exactly the name of
\* that rule as its reason; a decision that allows the trade has the names of
\* the matching rules, joined in order, as its reason, or "default" when no
\* rule matched.
C19_ReasonNamesTheVeto ==
  returned.call = "evaluatePolicy" =>
    LET d == returned.decision
        matched == MatchedRules(returned.features)
        last == d.visited[Len(d.visited)]
    IN IF d.allowTrade
       THEN d.reason = IF Len(matched) > 0
                       THEN [n \in 1..Len(matched) |-> matched[n].name]
                       ELSE <<"default">>
       ELSE /\ Len(d.visited) > 0
            /\ checkConditions(last, returned.features)
            /\ "allowTrade" \in DOMAIN last.then /\ ~last.then["allowTrade"]
            /\ d.visited = SubSeq(rules, 1, Len(d.visited))
            /\ d.reason = <<last.name>>

\* C20: update returns null while the calculator has seen fewer than period
\* candles; a value that update or getNatr returns is finite and above zero,
\* comes from a calculator that has seen at least period candles and whose last
\* close is above zero; and a getNatr call leaves the calculators as they were.
C20_NatrOnlyWhenWarm ==
  [][LET call == returned'
         key == toUpperCase(call.coin)
     IN call.call \in {"update", "getNatr"} =>
          /\ (call.call = "update" /\ calculators'[key].candles < period) =>
               call.value = null
          /\ call.value # null =>
               /\ call.value.finite
               /\ call.value.num > 0 /\ call.value.den > 0
               /\ key \in DOMAIN calculators'
               /\ calculators'[key].candles >= period
               /\ calculators'[key].lastClose > 0
          /\ call.call = "getNatr" => calculators' = calculators]_vars

\* With a period of 3 the third candle made update return a value, and a later
\* getNatr call returned one as well.
C20_Witness ==
  /\ period = 3
  /\ returned.call = "getNatr"
  /\ returned.value # null
  /\ calculators["BTC"].candles = 3

SentCount(type, coin) ==
  Cardinality({n \in 1..Len(client.sent) :
                 client.sent[n].type = type /\ client.sent[n].coin = coin})

\* C22: while a socket opened by a reconnect is open, exactly one subscribe
\* message has been sent on it for every order-book coin and for every trades
\* coin the client holds, and nothing is dispatched from it for a coin whose
\* subscribe message was not sent on it.
C22_ResubscribedOnceEach ==
  (socketIsOpen(client) /\ client.sockets[client.ws].resubscribes) =>
    /\ \A n \in 1..Len(client.subscriptions) :
         SentCount("l2Book", client.subscriptions[n]) = 1
    /\ \A n \in 1..Len(client.tradeSubscriptions) :
         SentCount("trades", client.tradeSubscriptions[n]) = 1
    /\ \A n \in 1..Len(client.dispatched) :
         SentCount(client.dispatched[n].type, client.dispatched[n].coin) = 1

\* A step that is one call of the engine.
EngineCall(name) == engine'.calls = engine.calls + 1 /\ returned'.call = name

\* C23: a cancelLimitOrder call on an order that is already cancelled or
\* already filled changes no order (the order stays cancelled or filled and
\* its cancelledAt is unchanged), sends no request and raises no error.
C23_CancelOfDoneOrderIsNoOp ==
  [][(/\ EngineCall("cancelLimitOrder")
      /\ \/ engine.orders[returned'.order].cancelled
         \/ engine.orders[returned'.order].filled)
     => /\ engine'.orders = engine.orders
        /\ engine'.requests = engine.requests
        /\ ~returned'.threw]_vars

\* The live engine was asked to cancel an order it had cancelled at an earlier
\* time, while it also holds a filled order.
C23_Witness ==
  /\ returned.call = "cancelLimitOrder"
  /\ returned.skipped
  /\ isLive(engine)
  /\ engine.orders[returned.order].cancelled
  /\ engine.orders[returned.order].cancelledAt < now
  /\ \E n \in 1..Len(engine.orders) : engine.orders[n].filled

\* C24: a cancelLimitOrder call that the exchange answers with -2011 or -2013
\* raises no error and leaves the order cancelled; an openPosition or
\* placeLimitOrder call of the live engine that the exchange rejects, or whose
\* quantity normalizes to zero, returns null and leaves the positions, the
\* orders and the exchange position as they were.
C24_UnknownOrderAndRejections ==
  [][/\ (EngineCall("cancelLimitOrder") /\ returned'.response \in {"-2011", "-2013"})
        => ~returned'.threw /\ engine'.orders[returned'.order].cancelled
     /\ (/\ EngineCall("openPosition") \/ EngineCall("placeLimitOrder")
         /\ isLive(engine)
         /\ returned'.response = "-4003" \/ returned'.quantity = 0)
        => /\ returned'.result = "null"
           /\ ~returned'.threw
           /\ engine'.positions = engine.positions
           /\ engine'.orders = engine.orders
           /\ engine'.held = engine.held]_vars

\* An order that the exchange had filled was cancelled on an unknown-order
\* answer, and the exchange then rejected a limit order.
C24_Witness ==
  /\ returned.call = "placeLimitOrder"
  /\ returned.response = "-4003"
  /\ returned.result = "null"
  /\ \E n \in 1..Len(engine.orders) :
       /\ engine.orders[n].cancelled
       /\ engine.orders[n].onExchange = "filled"

\* C25: when closePosition of the live engine returns normally while the
\* exchange still holds a position of the coin, the emergency cleanup (the
\* 120% reduce-only close) was logged.
C25_CloseReconciled ==
  (/\ returned.call = "closePosition"
   /\ isLive(engine)
   /\ ~returned.threw
   /\ returned.held > 0)
  => returned.emergency

\* The LargeOrder of a level.
LargeOrderOf(coin, side, level) ==
  [coin |-> coin, side |-> side, price |-> level.price,
   valueUsd |-> level.price * level.size]

\* C26: the LargeOrders emitted for a snapshot are those of the levels for
\* which both sides of the book are non-empty, price * size reaches the
\* effective minimum (the per-coin override when present, else
\* minOrderSizeUsd) and the distance from mid = (bestBid + bestAsk) / 2,
\* downwards for bids and upwards for asks, is between 0 and
\* maxDistancePercent of mid.
C26_LargeOrderIff ==
  returned.call = "processOrderBook" =>
    LET coin == returned.snapshot.coin
        book == returned.snapshot.book
        override == cfg.perCoinMinOrderSizeUsd[IF coin = "btc" THEN "BTC" ELSE coin]
        minimum == IF override # 0 THEN override ELSE 1000
        qualifies(side, level) ==
          LET twiceMid == book.bids[1].price + book.asks[1].price
              twiceAway == IF side = "bid" THEN twiceMid - 2 * level.price
                           ELSE 2 * level.price - twiceMid
          IN /\ level.price * level.size >= minimum
             /\ 0 <= twiceAway
             /\ 100 * twiceAway <= 10 * twiceMid
        expected(side, levels) ==
          {LargeOrderOf(coin, side, levels[i]) :
             i \in {j \in 1..Len(levels) :
                      /\ Len(book.bids) > 0 /\ Len(book.asks) > 0
                      /\ qualifies(side, levels[j])}}
    IN returned.emitted = expected("bid", book.bids) \cup expected("ask", book.asks)

\* A snapshot of BTC under an override of 500 yielded the LargeOrder of a level
\* worth 500, and none for a level beyond maxDistancePercent.
C26_Witness ==
  /\ returned.call = "processOrderBook"
  /\ cfg.perCoinMinOrderSizeUsd["BTC"] = 500
  /\ returned.snapshot.coin = "btc"
  /\ \E order \in returned.emitted : order.valueUsd = 500
  /\ \E n \in 1..Len(returned.snapshot.book.asks) :
       /\ returned.snapshot.book.asks[n].price * returned.snapshot.book.asks[n].size >= 1000
       /\ \A order \in returned.emitted :
            order.side = "ask" => order.price # returned.snapshot.book.asks[n].price

\* C27: every AnchorStats entry has winTrades + lossTrades <= totalTrades and
\* lastTradeAt >= firstTradeAt; the three counters of an entry never decrease;
\* and a recordTrade call with pnlUsd = 0 adds one to totalTrades and nothing
\* to winTrades and lossTrades.
C27_AnchorStatsConsistent ==
  /\ [](\A k \in DOMAIN anchors :
          /\ anchors[k].winTrades + anchors[k].lossTrades <= anchors[k].totalTrades
          /\ anchors[k].lastTradeAt >= anchors[k].firstTradeAt)
  /\ [][/\ \A k \in DOMAIN anchors \cap DOMAIN anchors' :
             /\ anchors'[k].totalTrades >= anchors[k].totalTrades
             /\ anchors'[k].winTrades >= anchors[k].winTrades
             /\ anchors'[k].lossTrades >= anchors[k].lossTrades
        /\ (returned'.call = "recordTrade" /\ returned'.pnlUsd = 0 /\ anchors' # anchors)
           => LET k == returned'.key
                  was(field) == IF k \in DOMAIN anchors THEN anchors[k][field] ELSE 0
              IN /\ anchors'[k].totalTrades = was("totalTrades") + 1
                 /\ anchors'[k].winTrades = was("winTrades")
                 /\ anchors'[k].lossTrades = was("lossTrades")]_vars

\* An anchor has a win, a loss and, recorded last and later than the first
\* trade, a trade without profit or loss.
C27_Witness ==
  /\ returned.call = "recordTrade"
  /\ returned.pnlUsd = 0
  /\ returned.key \in DOMAIN anchors
  /\ anchors[returned.key].totalTrades = 3
  /\ anchors[returned.key].winTrades = 1
  /\ anchors[returned.key].lossTrades = 1
  /\ anchors[returned.key].lastTradeAt > anchors[returned.key].firstTradeAt

\* C28: with the policy enabled, every step that logs the trade of a closed
\* position and removes it from the ledger adds one to totalTrades of the
\* position's anchor (coin, anchorPrice, side) in the anchor memory.
C28_ClosedTradeRecordedOnce ==
  [][cfg.policyEnabled =>
       \A m \in (Len(tradeLog) + 1)..Len(tradeLog') :
         LET position == positions'[tradeLog'[m].pos]
             key == <<position.coin, position.anchorPrice, position.anchorSide>>
             before == IF key \in DOMAIN anchors THEN anchors[key].totalTrades ELSE 0
         IN tradeLog'[m].pos \notin SeqToSet(openPositions') =>
              /\ key \in DOMAIN anchors'
              /\ anchors'[key].totalTrades = before + 1]_vars

\* C29: an alert is sent for a key (coin, side) only when no alert was sent
\* for that key before or the last one was sent at least alertCooldownMs
\* earlier.
C29_OneAlertPerCooldown ==
  [][\A k \in AlertKeys :
       (/\ telegram'.pending = telegram.pending + 1
        /\ telegram'.lastAlerts[k] # telegram.lastAlerts[k])
       => \/ telegram.lastEmitted[k] = 0
          \/ now - telegram.lastEmitted[k] >= telegram.alertCooldownMs]_vars

\* C30: once shutdown was called, no supervisor tick starts, and no
\* cancelLimitOrder, closePosition or placeLimitOrder call is issued that had
\* not been issued when shutdown was called, whether by a new handler or by a
\* supervisor tick or snapshot handler that was in flight.
C30_NothingIssuedAfterShutdown ==
  /\ [](returned.call = "shutdown" =>
          /\ count.ticks = returned.ticks
          /\ Len(closeLog) = returned.closeCalls
          /\ CancelRequests = returned.cancelRequests)
  /\ [][returned.call = "shutdown" =>
          /\ EntryPlaceRequests' \subseteq EntryPlaceRequests
          /\ SnapPlaceRequests' \subseteq SnapPlaceRequests]_vars

\* C31: a market-on-touch TP hit in live mode reduces the exchange position by
\* the target's size only: after the accepted closePosition with reason tp_hit
\* for a target of at least one lot the exchange holds what it held before
\* minus the target's contracts, and it still holds something while other
\* targets are unhit.
C31_TpHitClosesTargetOnly ==
  (/\ returned.call = "closePosition"
   /\ returned.reason = "tp_hit"
   /\ isLive(engine)
   /\ returned.response = "ok"
   /\ returned.targetContracts > 0)
  => /\ returned.held = returned.before - returned.targetContracts
     /\ returned.targetsLeft => returned.held > 0

\* The final closePosition calls (every reason but tp_hit) and the trade-log
\* entries that a snapshot handler adds for position p in this step.
FinalCloseCallsAdded(p) ==
  {m \in (Len(closeLog) + 1)..Len(closeLog') :
     closeLog'[m].pos = p /\ closeLog'[m].tick = 0 /\ closeLog'[m].reason # "tp_hit"}

TradeLogsAdded(p) ==
  {m \in (Len(tradeLog) + 1)..Len(tradeLog') : tradeLog'[m].pos = p /\ tradeLog'[m].tick = 0}

\* C32: handling one snapshot issues at most one final closePosition and writes
\* at most one trade-log entry per position: no position is queued for closing
\* under two reasons in the same snapshot.
C32_OneFinalClosePerSnapshot ==
  [][\A p \in DOMAIN positions :
       /\ Cardinality(FinalCloseCallsAdded(p)) <= 1
       /\ Cardinality(TradeLogsAdded(p)) <= 1]_vars

\* The final closePosition calls and the trade-log entries of position p so far.
FinalCloseCalls(p) ==
  {m \in 1..Len(closeLog) : closeLog[m].pos = p /\ closeLog[m].reason # "tp_hit"}

TradeLogsOf(p) == {m \in 1..Len(tradeLog) : tradeLog[m].pos = p}

\* The placeLimitOrder calls for position p that snapshot handlers await.
SnapPlaceRequestsOf(handlers, p) ==
  {<<h, handlers[h].idx, handlers[h].i>> :
     h \in {e \in DOMAIN handlers : /\ handlers[e].pc = "tpPlaceWait"
                                    /\ handlers[e].relevant[handlers[e].idx] = p}}

\* The orders of position p for which a cancel has been requested.
CancelRequestsOf(ords, p) ==
  {o \in 1..Len(ords) : ords[o].pos = p /\ ords[o].cancelRequested}

\* C33: whatever the interleaving of snapshot handlers and supervisor ticks,
\* a position gets at most one final closePosition call and at most one
\* trade-log entry, and once it has left the ledger no handler closes it,
\* cancels one of its orders or places an order for it.
C33_OneFinalCloseEver ==
  /\ [](\A p \in DOMAIN positions :
          /\ Cardinality(FinalCloseCalls(p)) <= 1
          /\ Cardinality(TradeLogsOf(p)) <= 1)
  /\ [][\A p \in DOMAIN positions :
          positions[p].state = "closed" =>
            /\ \A m \in (Len(closeLog) + 1)..Len(closeLog') : closeLog'[m].pos # p
            /\ CancelRequestsOf(orders', p) \subseteq CancelRequestsOf(orders, p)
            /\ SnapPlaceRequestsOf(snaps', p) \subseteq SnapPlaceRequestsOf(snaps, p)]_vars

\* C34: when a supervisor tick returns after closing a position, none of the
\* positions that were at risk when the tick started is left in the ledger
\* still at risk: removing a closed position does not make the tick skip the
\* position that follows it.
C34_TickClosesEveryPositionAtRisk ==
  [][\A h \in DOMAIN sups \ DOMAIN sups' :
       Len(tradeLog') > Len(tradeLog) =>
         \A p \in sups[h].atRisk :
           p \in SeqToSet(openPositions') =>
             ~RiskExceeded(positions'[p], lastPrices'[positions'[p].coin])]_vars

\* The TP-limit orders placed for position p that are not cancelled.
LiveTpOrders(p) ==
  {o \in 1..Len(orders) : orders[o].pos = p /\ orders[o].purpose = "tp"
                          /\ ~orders[o].cancelled}

\* Position p has a placeLimitTpOrders call in flight.
LadderInFlight(p) ==
  \/ \E h \in DOMAIN snaps : /\ snaps[h].pc = "tpPlaceWait"
                             /\ snaps[h].relevant[snaps[h].idx] = p
  \/ \E h \in DOMAIN entries : entries[h].pos = p

\* C35: the TP-limit ladder of a position is placed at most once: whenever no
\* placement for the position is in flight, the TP-limit orders placed for it
\* and not cancelled are exactly the orders of position.tpLimitOrders that
\* are not cancelled.
C35_TpLadderPlacedOnce ==
  \A p \in DOMAIN positions :
    ~LadderInFlight(p) =>
      LiveTpOrders(p) = {o \in SeqToSet(positions[p].tpLimitOrders) : ~orders[o].cancelled}


\* The candles the feed has handed to NatrService.update for a coin key.
CandlesSeen(key) ==
  IF key \in DOMAIN candleFeed.seen THEN candleFeed.seen[key] ELSE {}

\* C36: the candle feed advances a coin's NATR state at most once for each distinct
\* candle timestamp: the calculator has taken no more candles than there are
\* distinct timestamps among them, and it has a start ATR (a first NATR) only once
\* period distinct candles have been seen.
C36_OneUpdatePerCandleTimestamp ==
  \A key \in DOMAIN calculators :
    /\ calculators[key].candles <= Cardinality(CandlesSeen(key))
    /\ calculators[key].hasAtr => Cardinality(CandlesSeen(key)) >= period


\* C37: after disconnect() on the stream client no reconnect is scheduled and no
\* new WebSocket is opened: once disconnected, no step adds a reconnect timer and
\* no step adds a socket.
C37_NoReconnectAfterDisconnect ==
  [][client.disconnected =>
       /\ client'.timers \subseteq client.timers
       /\ Len(client'.sockets) = Len(client.sockets)]_vars

\* C38: a limit order is marked cancelled locally only if the exchange cancel
\* succeeded or failed with an unknown-order code (-2011, -2013): no step in which
\* an engine request fails for another reason marks an order cancelled.
C38_CancelledOnlyWhenExchangeAgrees ==
  [][\A o \in 1..Len(orders) :
       (~orders[o].cancelled /\ orders'[o].cancelled) => count'.faults = count.faults]_vars

\* C39: for every position in the ledger sizeUsd <= marketFilledSizeUsd +
\* limitFilledSizeUsd at all times: the size the supervisor and the close orders
\* act on is never more than what was filled.
C39_SizeNeverAboveFilled ==
  \A p \in SeqToSet(openPositions) :
    positions[p].sizeUsd <= positions[p].marketFilledSizeUsd + positions[p].limitFilledSizeUsd

\* C40: the pnlUsd of a trade log entry is computed from the size remaining at
\* close, the position's size after every TP fill was subtracted once: the size
\* the entry's PnL is taken from is the position's size at close, it is not
\* negative, and pnlUsd is that size times the price move over the entry price.
C40_PnlFromSizeRemainingAtClose ==
  \A n \in 1..Len(tradeLog) :
    /\ tradeLog[n].currentSizeUsd = tradeLog[n].sizeUsd
    /\ tradeLog[n].currentSizeUsd >= 0
    /\ tradeLog[n].pnlUsdByEntryPrice = tradeLog[n].sizeUsd * tradeLog[n].priceDiff

====
